---------------------------- MODULE Spec2Model ----------------------------
(***************************************************************************)
(* Model of the BQ35100 fuel-gauge protocol engine                         *)
(* (src/drivers/sensor/ltc4150/ltc4150.c, lines 239-1870).                 *)
(*                                                                         *)
(* The driver functions are modelled as procedures run by threads: every   *)
(* thread owns a call stack of activation records, and one action is one   *)
(* step of one function: at most one bus transaction together with the     *)
(* local computation that follows it.  The device on the other side of the *)
(* bus is a small state machine (security mode, unlock-key progress,       *)
(* extended memory, staged MAC frame).  A budget of faults lets the bus    *)
(* fail and lets the device report something else than its real state.     *)
(***************************************************************************)
EXTENDS Integers, Sequences, FiniteSets, TLC

VARIABLES
    security_mode,   \* struct bq35100_data: cached security mode
    gauge_mode,      \* struct bq35100_data: cached gauge mode
    gauge_enabled,   \* struct bq35100_data: gauge_enabled
    dev,             \* the chip: mode, key progress, MAC address, memory, ...
    faults,          \* bus failures / device misreports still allowed
    stack,           \* per thread: the call stack, innermost call last
    ret,             \* per thread: value (and buffer) of the last return
    call,            \* per thread: the API call in progress or just returned
    log,             \* per thread: bus transactions of the current API call
    quota,           \* per thread: API calls it may still make (-1: any)
    mid,             \* per thread: "none" | "started" | "interrupted"
    interleaved,     \* a call's bus transactions were split by another call
    clobbered,       \* security_mode changed under a saved previous mode
    ltc4150_data     \* struct ltc4150_data of the coulomb counter's driver

vars == <<security_mode, gauge_mode, gauge_enabled, dev, faults, stack, ret,
          call, log, quota, mid, interleaved, clobbered, ltc4150_data>>

handle == <<security_mode, gauge_mode, gauge_enabled>>

\* the board has no coulomb counter
NoCounter == [trigger |-> "none"]

-----------------------------------------------------------------------------
(* Bounds of the model *)

MaxFaults == 1

-----------------------------------------------------------------------------
(* Constants of bq35100.h (the header is not part of the sources) *)

BQ35100_SECURITY_UNKNOWN == 0

BQ35100_SECURITY_FULL_ACCESS == 1

BQ35100_SECURITY_UNSEALED == 2

BQ35100_SECURITY_SEALED == 3

BQ35100_ACCUMULATOR_MODE == 0

BQ35100_SOH_MODE == 1

BQ35100_EOS_MODE == 2

BQ35100_UNKNOWN_MODE == 3

BQ35100_CTRL_NEW_BATTERY == 42515

BQ35100_CTRL_EXIT_CAL == 128

BQ35100_CTRL_ENTER_CAL == 129

\* the calibration-mode bit of CONTROL_STATUS
BQ35100_CAL_MODE_BIT_MASK == 4096

\* the cell holding the design capacity in mAh
BQ35100_FLASH_CELL_DESIGN_CAPACITY_MAH == 16894

\* Operation Config A, the flag byte whose low two bits are the gauge mode
BQ35100_FLASH_OPERATION_CFG_A == 16817

\* the cells holding the calibration offsets (one signed byte each)
BQ35100_FLASH_INT_TEMP_OFFSET == 16397

BQ35100_FLASH_EXT_TEMP_OFFSET == 16398

BQ35100_FLASH_PACK_V_OFFSET == 16399

\* the current calibration: gain and delta (4 bytes each), the coulomb
\* counter offset (2 bytes) and the board offset (1 byte)
BQ35100_FLASH_CC_GAIN == 16384

BQ35100_FLASH_CC_DELTA == 16388

BQ35100_FLASH_CC_OFFSET == 16392

BQ35100_FLASH_BOARD_OFFSET == 16396

\* the subcommand that asks for the device type, and the type of a BQ35100
BQ35100_CTRL_DEVICE_TYPE == 1

BQ35100_DEVICE_TYPE_ID == 256

BQ35100_CTRL_SEALED == 32

BQ35100_DEFAULT_SEAL_CODES == 68433522

BQ35100_FLASH_FULL_UNSEAL_STEP1 == 16848

BQ35100_FLASHF_BIT_MASK == 32768

\* bit 0 of CONTROL_STATUS: gauge active
BQ35100_GA_BIT_MASK == 1

BQ35100_CTRL_GAUGE_START == 17

BQ35100_CTRL_GAUGE_STOP == 18

EIO == 5

ENOTSUP == 134

ENXIO == 6

ENODEV == 19

SecurityModes == {BQ35100_SECURITY_UNKNOWN, BQ35100_SECURITY_FULL_ACCESS,
                  BQ35100_SECURITY_UNSEALED, BQ35100_SECURITY_SEALED}

-----------------------------------------------------------------------------
(* Integer helpers: the casts and shifts of the C code *)

Lo(v) == v % 256

Hi(v) == (v \div 256) % 256

U16(v) == v % 65536

\* (uint16_t)(x >> 16)
High16(v) == (v \div 65536) % 65536

\* buf[0] = (uint8_t)v; buf[1] = (uint8_t)(v >> 8)   (little endian)
LittleEndian16(v) == <<Lo(v), Hi(v)>>

\* ((uint16_t)buf[1] << 8) | buf[0]
FromLittleEndian16(b) == b[2] * 256 + b[1]

\* status & mask, mask a single bit
BitSet(v, mask) == (v \div mask) % 2 = 1

Zeros(n) == [k \in 1..n |-> 0]

\* a & b on 16-bit values
RECURSIVE BitAnd(_, _)
BitAnd(a, b) ==
    IF a = 0 \/ b = 0 THEN 0
    ELSE (a % 2) * (b % 2) + 2 * BitAnd(a \div 2, b \div 2)

Min(a, b) == IF a < b THEN a ELSE b

-----------------------------------------------------------------------------
(* bq35100_compute_checksum, ltc4150.c:583-598 *)

\* checksum += *data, on a uint8_t, over the first n bytes
RECURSIVE SumBytes(_, _)
SumBytes(data, n) ==
    IF n = 0 THEN 0 ELSE (SumBytes(data, n - 1) + data[n]) % 256

\* a variant that returns the byte sum itself, not its complement
ChecksumNoComplement(data, length) == SumBytes(data, length)

bq35100_compute_checksum(data, length) ==
    (255 - SumBytes(data, length)) % 256

\* An int converted to size_t: a negative value wraps to the top of the
\* range (SIZE_MAX + 1 + n; the top of the range is written 2^31 - 1 here,
\* the largest number TLC holds, and nothing below depends on more
\* than its being far above 255).
SizeT(n) == IF n < 0 THEN 2147483647 + n ELSE n

\* The length read_extended_data passes at line 465: data[35] - 2
ChecksumLength(lenByte) == SizeT(lenByte - 2)

\* for (x = 1; x <= length; x++) with uint8_t x: x never exceeds 255, so
\* the loop only ends when length < 255.
ChecksumLoopEnds(length) == length < 255

-----------------------------------------------------------------------------
(* The device: the chip behind the bus *)

ExtAddrLow == 16384

ExtAddrHigh == 17407

\* Extended-memory cells the device of the model holds
DevCells ==
    {ExtAddrLow, ExtAddrHigh, BQ35100_FLASH_FULL_UNSEAL_STEP1,
     BQ35100_FLASH_OPERATION_CFG_A, BQ35100_FLASH_CELL_DESIGN_CAPACITY_MAH,
     BQ35100_FLASH_INT_TEMP_OFFSET, BQ35100_FLASH_EXT_TEMP_OFFSET,
     BQ35100_FLASH_PACK_V_OFFSET, BQ35100_FLASH_CC_DELTA,
     BQ35100_FLASH_CC_OFFSET, BQ35100_FLASH_BOARD_OFFSET}

DevFullAccessKey == <<1, 2, 3, 4>>

DevInitMem ==
    [a \in DevCells |->
        IF a = BQ35100_FLASH_FULL_UNSEAL_STEP1 THEN DevFullAccessKey ELSE <<0>>]

\* deaf: this chip does not act on the seal subcommand or on the unlock
\* codes the driver knows (its keys were changed, or it refuses them)
DevInit(m, deaf) ==
    [mode |-> m, deaf |-> deaf, key |-> "none", mac |-> 0,
     mem |-> DevInitMem, stage |-> <<>>, sum |-> -1, flashf |-> FALSE,
     ga |-> FALSE, pending |-> "none", raw |-> <<>>, cal |-> FALSE,
     script |-> <<>>, pos |-> 0]

\* one's-complement byte sum, as the chip computes it
RECURSIVE DevSum(_)
DevSum(bytes) ==
    IF bytes = <<>> THEN 0 ELSE (Head(bytes) + DevSum(Tail(bytes))) % 256

DevChecksum(bytes) == 255 - DevSum(bytes)

\* the two halves of the full-access key the chip holds
DevKeyCode(d) ==
    LET k == d.mem[BQ35100_FLASH_FULL_UNSEAL_STEP1]
    IN  <<k[1] * 256 + k[2], k[3] * 256 + k[4]>>

\* A 16-bit subcommand written to ManufacturerAccessControl
DevSubcommand(d, v) ==
    IF d.deaf /\ ~(v >= ExtAddrLow /\ v <= ExtAddrHigh)
    THEN d
    ELSE IF v = BQ35100_CTRL_SEALED
    THEN [d EXCEPT !.mode = BQ35100_SECURITY_SEALED, !.key = "none"]
    ELSE IF v = BQ35100_CTRL_GAUGE_START
    THEN [d EXCEPT !.pending = "start", !.key = "none"]
    ELSE IF v = BQ35100_CTRL_GAUGE_STOP
    THEN [d EXCEPT !.pending = "stop", !.key = "none"]
    ELSE IF v = BQ35100_CTRL_ENTER_CAL
    THEN [d EXCEPT !.cal = TRUE, !.key = "none"]
    ELSE IF v = BQ35100_CTRL_EXIT_CAL
    THEN [d EXCEPT !.cal = FALSE, !.key = "none"]
    ELSE IF v = High16(BQ35100_DEFAULT_SEAL_CODES)
    THEN [d EXCEPT !.key = "unseal"]
    ELSE IF v = U16(BQ35100_DEFAULT_SEAL_CODES) /\ d.key = "unseal"
    THEN [d EXCEPT !.key = "none",
                   !.mode = IF @ = BQ35100_SECURITY_SEALED
                            THEN BQ35100_SECURITY_UNSEALED ELSE @]
    ELSE IF v = DevKeyCode(d)[1]
    THEN [d EXCEPT !.key = "full"]
    ELSE IF v = DevKeyCode(d)[2] /\ d.key = "full"
    THEN [d EXCEPT !.key = "none",
                   !.mode = IF @ = BQ35100_SECURITY_UNSEALED
                            THEN BQ35100_SECURITY_FULL_ACCESS ELSE @]
    ELSE IF v >= ExtAddrLow /\ v <= ExtAddrHigh
    THEN [d EXCEPT !.key = "none", !.mac = v]
    ELSE [d EXCEPT !.key = "none"]

\* The length byte written to MACDataLen commits the staged frame
DevCommit(d, n) ==
    LET st   == d.stage
        addr == IF Len(st) >= 2 THEN FromLittleEndian16(st) ELSE 0
        ok   == /\ d.mode # BQ35100_SECURITY_SEALED
                /\ Len(st) >= 3
                /\ addr \in DevCells
                /\ d.sum = DevChecksum(st)
                /\ n = Len(st) + 2
    IN  IF ok
        THEN [d EXCEPT !.mem[addr] = SubSeq(st, 3, Len(st)), !.flashf = FALSE,
                       !.stage = <<>>, !.sum = -1, !.mac = 0]
        ELSE [d EXCEPT !.flashf = TRUE, !.stage = <<>>, !.sum = -1,
                       !.mac = 0]

\* A bus write that reached the device
DevWrite(d, op, bytes) ==
    CASE op = "mac_control" -> DevSubcommand(d, FromLittleEndian16(bytes))
      [] op = "mac_frame"   -> [d EXCEPT !.stage = bytes, !.key = "none"]
      [] op = "mac_sum"     -> [d EXCEPT !.sum = bytes[1]]
      [] op = "mac_len"     -> DevCommit(d, bytes[1])

\* the gauge-active bit of CONTROL_STATUS
DevGaBit(d) == IF d.ga THEN BQ35100_GA_BIT_MASK ELSE 0

\* the calibration-mode bit of CONTROL_STATUS
DevCalBit(d) == IF d.cal THEN BQ35100_CAL_MODE_BIT_MASK ELSE 0

\* CONTROL_STATUS as the device holds it: security in bits 14:13, FLASHF,
\* CAL_MODE, GA
DevStatus(d) ==
    d.mode * 8192 + (IF d.flashf THEN BQ35100_FLASHF_BIT_MASK ELSE 0)
    + DevCalBit(d) + DevGaBit(d)

\* What a disturbed device can show instead: other security bits, or the
\* FLASHF bit flipped
StatusValues(d) ==
    {m * 8192 + (IF d.flashf THEN BQ35100_FLASHF_BIT_MASK ELSE 0)
       + DevCalBit(d) + DevGaBit(d) : m \in 0..3}
    \cup {d.mode * 8192 + (IF d.flashf THEN 0 ELSE BQ35100_FLASHF_BIT_MASK)
           + DevCalBit(d) + DevGaBit(d)}

\* The 36-byte MAC block: address, 32 data bytes, MACDataSum, MACDataLen
DevFrame(d) ==
    IF d.raw # <<>> THEN d.raw
    ELSE IF d.mac \in DevCells
    THEN LET p == d.mem[d.mac]
             h == LittleEndian16(d.mac) \o p
         IN  h \o Zeros(32 - Len(p)) \o <<DevChecksum(h), Len(p) + 4>>
    ELSE Zeros(36)

\* What a disturbed transfer can deliver instead: a wrong address echo, a
\* wrong checksum, a zero length byte
BadFrames(f) ==
    { [f EXCEPT ![2] = (@ + 1) % 256],
      [f EXCEPT ![35] = (@ + 1) % 256],
      [f EXCEPT ![36] = 0] }

-----------------------------------------------------------------------------
(* Threads, activation records and the bus *)

Threads == DOMAIN stack

Frame(fn, target, address, payload, length, buf) ==
    [fn |-> fn, pc |-> "entry", target |-> target, address |-> address,
     payload |-> payload, length |-> length, buf |-> buf,
     prev |-> 0, i |-> 0, success |-> FALSE, codes |-> <<0, 0>>]

\* the record f with the fields of g added (or replaced)
Extend(f, g) ==
    [k \in DOMAIN f \cup DOMAIN g |-> IF k \in DOMAIN g THEN g[k] ELSE f[k]]

Top(t) == stack[t][Len(stack[t])]

At(t, fn, pc) ==
    /\ stack[t] # <<>>
    /\ Top(t).fn = fn
    /\ Top(t).pc = pc

\* the running function moves on to f
Goto(t, f) ==
    /\ stack' = [stack EXCEPT ![t][Len(stack[t])] = f]
    /\ UNCHANGED <<ret, call>>

\* the running function, left as f, calls g
CallFn(t, f, g) ==
    /\ stack' = [stack EXCEPT ![t] = Append([@ EXCEPT ![Len(@)] = f], g)]
    /\ UNCHANGED <<ret, call>>

\* the running function returns v (b: the caller's buffer as it leaves it)
Return(t, v, b) ==
    /\ stack' = [stack EXCEPT ![t] = SubSeq(@, 1, Len(@) - 1)]
    /\ ret' = [ret EXCEPT ![t] = [v |-> v, buf |-> b]]
    /\ call' = IF Len(stack[t]) = 1
               THEN [call EXCEPT ![t].st = "ret", ![t].ret = v, ![t].buf = b]
               ELSE call

\* an application thread enters the driver
Invoke(t, op, f) ==
    /\ stack[t] = <<>>
    /\ quota[t] # 0
    /\ quota' = [quota EXCEPT ![t] = IF @ > 0 THEN @ - 1 ELSE @]
    /\ stack' = [stack EXCEPT ![t] = <<f>>]
    /\ call' = [call EXCEPT ![t] =
                  [op |-> op, st |-> "run", target |-> f.target,
                   address |-> f.address, payload |-> f.payload,
                   length |-> f.length, entry |-> security_mode,
                   gm |-> gauge_mode, ge |-> gauge_enabled,
                   dm |-> dev.mode, faults0 |-> faults, ret |-> 0,
                   buf |-> f.buf, args |-> f]]
    /\ log' = [log EXCEPT ![t] = <<>>]
    /\ mid' = [mid EXCEPT ![t] = "none"]
    /\ UNCHANGED <<ret, handle, dev, faults, interleaved, clobbered,
                 ltc4150_data>>

\* one transaction on the bus, recorded for the call that issued it
Transact(t, e) ==
    /\ log' = [log EXCEPT ![t] = Append(@, e)]
    /\ interleaved' = (interleaved \/ mid[t] = "interrupted")
    /\ mid' = [u \in Threads |->
                 IF u = t THEN "started"
                 ELSE IF mid[u] = "started" /\ stack[u] # <<>>
                      THEN "interrupted" ELSE mid[u]]

NoBus == UNCHANGED <<dev, faults, log, mid, interleaved>>

\* what only the callers and only set_security_mode's read-back change
Kept == UNCHANGED <<handle, clobbered, quota, ltc4150_data>>

\* whether this transfer fails on the bus (a fault of the budget)
FailChoices == IF faults > 0 THEN {FALSE, TRUE} ELSE {FALSE}

\* i2c_write / i2c_burst_read: 0, or a negative errno
I2cResult(fail) == IF fail THEN -EIO ELSE 0

\* i2c_write of `bytes` to the register `op` (wire length n)
BusWrite(t, op, bytes, n, fail) ==
    /\ dev' = IF fail THEN dev ELSE DevWrite(dev, op, bytes)
    /\ faults' = IF fail THEN faults - 1 ELSE faults
    /\ Transact(t, [op |-> op, val |-> bytes, n |-> n, ok |-> ~fail,
                    d |-> Len(stack[t])])

\* What a 2-byte read of CONTROL_STATUS can deliver: the real status, or
\* (a fault) another one, or (a fault) no transfer at all
StatusOutcomes ==
    {[ok |-> TRUE, s |-> DevStatus(dev), cost |-> 0]}
    \cup (IF faults > 0
          THEN {[ok |-> TRUE, s |-> x, cost |-> 1] :
                    x \in StatusValues(dev) \ {DevStatus(dev)}}
               \cup {[ok |-> FALSE, s |-> 0, cost |-> 1]}
          ELSE {})

BusReadStatus(t, o) ==
    /\ dev' = IF o.ok THEN [dev EXCEPT !.key = "none"] ELSE dev
    /\ faults' = faults - o.cost
    /\ Transact(t, [op |-> "status", val |-> LittleEndian16(o.s), n |-> 2,
                    ok |-> o.ok, d |-> Len(stack[t])])

\* What the 36-byte burst read can deliver
FrameOutcomes ==
    {[ok |-> TRUE, data |-> DevFrame(dev), cost |-> 0]}
    \cup (IF faults > 0
          THEN {[ok |-> TRUE, data |-> f, cost |-> 1] :
                    f \in BadFrames(DevFrame(dev))}
               \cup {[ok |-> FALSE, data |-> Zeros(36), cost |-> 1]}
          ELSE {})

BusReadFrame(t, o) ==
    /\ dev' = IF o.ok THEN [dev EXCEPT !.key = "none", !.mac = 0] ELSE dev
    /\ faults' = faults - o.cost
    /\ Transact(t, [op |-> "mac_block", val |-> o.data, n |-> 36,
                    ok |-> o.ok, d |-> Len(stack[t])])

-----------------------------------------------------------------------------
(* Transport primitives, ltc4150.c:276-406 and 980-984 *)

\* bq35100_control_reg_write: "uint8_t ret" holds the bus result, and that
\* is what the function returns
bq35100_control_reg_write(busret) == busret % 256

\* bq35100_reg_read of 2 bytes, little endian; the bus result is returned
bq35100_get_status(o) == I2cResult(~o.ok)

-----------------------------------------------------------------------------
(* bq35100_get_security_mode, ltc4150.c:1026-1060 *)

\* (data >> 13) & 0b011
SecurityBits(status) == (status \div 8192) % 4

\* The value the function returns, which set_security_mode stores in
\* data->security_mode: -EIO when the status read fails
bq35100_get_security_mode(o) ==
    IF bq35100_get_status(o) < 0 THEN -EIO ELSE SecurityBits(o.s)

-----------------------------------------------------------------------------
(* bq35100_set_security_mode, ltc4150.c:606-686 *)

SsmFrame(target) == Frame("set_security_mode", target, 0, <<>>, 0, <<>>)

RedFrame(address, buf, length) ==
    Frame("read_extended_data", 0, address, <<>>, length, buf)

WedFrame(address, data) ==
    Frame("write_extended_data", 0, address, data, Len(data), <<>>)

\* a variant of the test of line 615 that never takes the early return
NeverInMode(cached, target) == FALSE

\* line 615: if (data->security_mode == security_mode) return 0;
AlreadyInMode(cached, target) == cached = target

\* line 620: for (i = 0; (i < 3) && !success; i++)
RetryAgain(i, success) == i < 3 /\ ~success

\* the result of a set_security_mode call as its callers test it: !ret
CallerSeesFailure(r) == r = 0

\* The two 16-bit halves of a 32-bit code: (uint16_t)(c >> 16), (uint16_t)c
CodeHalves(c) == <<High16(c), U16(c)>>

\* The halves of (buf[0] << 24) + (buf[1] << 16) + (buf[2] << 8) + buf[3],
\* lines 639-646
FullAccessCodes(buf) == <<buf[1] * 256 + buf[2], buf[3] * 256 + buf[4]>>

\* uint8_t buf[4] is not initialised: what it may hold before the read
UninitBufs == {Zeros(4), <<255, 255, 255, 255>>}

\* 615-618, and the start of the loop
set_security_mode_entry(t) ==
    /\ At(t, "set_security_mode", "entry")
    /\ LET f == Top(t)
       IN  IF AlreadyInMode(security_mode, f.target)
           THEN Return(t, 0, <<>>)
           ELSE \E g \in (IF f.target = BQ35100_SECURITY_FULL_ACCESS
                          THEN UninitBufs ELSE {<<>>}) :
                   Goto(t, [f EXCEPT !.pc = "loop", !.buf = g])
    /\ NoBus
    /\ Kept

\* 620-670: the loop test and the switch, up to the first call or transfer
set_security_mode_loop(t) ==
    /\ At(t, "set_security_mode", "loop")
    /\ LET f == Top(t)
       IN  IF ~RetryAgain(f.i, f.success)
           THEN Return(t, 0, <<>>)                                  \* 685
           ELSE CASE f.target = BQ35100_SECURITY_UNKNOWN ->
                       Return(t, 0, <<>>)                           \* 624
                  [] f.target = BQ35100_SECURITY_FULL_ACCESS ->
                       IF security_mode = BQ35100_SECURITY_SEALED
                       THEN CallFn(t, [f EXCEPT !.pc = "prereq_ret"],
                                   SsmFrame(BQ35100_SECURITY_UNSEALED))
                       ELSE Goto(t, [f EXCEPT !.pc = "read_codes"])
                  [] f.target = BQ35100_SECURITY_UNSEALED ->
                       IF security_mode = BQ35100_SECURITY_FULL_ACCESS
                       THEN CallFn(t, [f EXCEPT !.pc = "prereq_ret"],
                                   SsmFrame(BQ35100_SECURITY_SEALED))
                       ELSE Goto(t, [f EXCEPT !.pc = "code1",
                                     !.codes = CodeHalves(BQ35100_DEFAULT_SEAL_CODES)])
                  [] f.target = BQ35100_SECURITY_SEALED ->
                       Goto(t, [f EXCEPT !.pc = "seal"])
                  [] OTHER -> Return(t, -EIO, <<>>)                 \* 668
    /\ NoBus
    /\ Kept

\* 626-630 and 651-655: back from the prerequisite transition
set_security_mode_prereq_ret(t) ==
    /\ At(t, "set_security_mode", "prereq_ret")
    /\ LET f == Top(t)
       IN  IF CallerSeesFailure(ret[t].v)
           THEN Return(t, -EIO, <<>>)
           ELSE IF f.target = BQ35100_SECURITY_FULL_ACCESS
                THEN Goto(t, [f EXCEPT !.pc = "read_codes"])
                ELSE Goto(t, [f EXCEPT !.pc = "code1",
                              !.codes = CodeHalves(BQ35100_DEFAULT_SEAL_CODES)])
    /\ NoBus
    /\ Kept

\* 632-633: read the full-access codes from data flash
set_security_mode_read_codes(t) ==
    /\ At(t, "set_security_mode", "read_codes")
    /\ LET f == Top(t)
       IN  CallFn(t, [f EXCEPT !.pc = "read_codes_ret"],
                  RedFrame(BQ35100_FLASH_FULL_UNSEAL_STEP1, f.buf, 4))
    /\ NoBus
    /\ Kept

\* 634-640
set_security_mode_read_codes_ret(t) ==
    /\ At(t, "set_security_mode", "read_codes_ret")
    /\ LET f == Top(t)
       IN  IF ret[t].v < 0
           THEN Return(t, -EIO, <<>>)
           ELSE Goto(t, [f EXCEPT !.pc = "code1", !.buf = ret[t].buf,
                         !.codes = FullAccessCodes(ret[t].buf)])
    /\ NoBus
    /\ Kept

\* 642-645 and 656-658: the high half of the codes
set_security_mode_code1(t) ==
    /\ At(t, "set_security_mode", "code1")
    /\ \E fail \in FailChoices :
          LET f      == Top(t)
              status == bq35100_control_reg_write(I2cResult(fail))
          IN  /\ BusWrite(t, "mac_control",
                          LittleEndian16(f.codes[1]), 3, fail)
              /\ Goto(t, [f EXCEPT !.pc = IF ~(status < 0) THEN "code2"
                                          ELSE "readback"])
    /\ Kept

\* 646-647 and 659-660: the low half
set_security_mode_code2(t) ==
    /\ At(t, "set_security_mode", "code2")
    /\ \E fail \in FailChoices :
          LET f == Top(t)
          IN  /\ BusWrite(t, "mac_control",
                          LittleEndian16(f.codes[2]), 3, fail)
              /\ Goto(t, [f EXCEPT !.pc = "readback"])
    /\ Kept

\* 664
set_security_mode_seal(t) ==
    /\ At(t, "set_security_mode", "seal")
    /\ \E fail \in FailChoices :
          /\ BusWrite(t, "mac_control",
                      LittleEndian16(BQ35100_CTRL_SEALED), 3, fail)
          /\ Goto(t, [Top(t) EXCEPT !.pc = "readback"])
    /\ Kept

\* another thread holds a previous_security_mode it means to restore
SavedElsewhere(t) ==
    \E u \in Threads \ {t} : \E k \in 1..Len(stack[u]) :
        /\ stack[u][k].fn \in {"read_extended_data", "write_extended_data"}
        /\ stack[u][k].pc # "entry"

\* 671-683: read the mode back, compare, count the attempt
set_security_mode_readback(t) ==
    /\ At(t, "set_security_mode", "readback")
    /\ \E o \in StatusOutcomes :
          LET f == Top(t)
              m == bq35100_get_security_mode(o)
          IN  /\ BusReadStatus(t, o)
              /\ security_mode' = m
              /\ clobbered' =
                   (clobbered \/ (m # security_mode /\ SavedElsewhere(t)))
              /\ UNCHANGED ltc4150_data
              /\ Goto(t, [f EXCEPT !.pc = "loop", !.i = @ + 1,
                                   !.success = (m = f.target)])
    /\ UNCHANGED <<gauge_mode, gauge_enabled, quota>>

-----------------------------------------------------------------------------
(* bq35100_read_extended_data, ltc4150.c:416-485 *)

\* a variant of the test of lines 433 and 510 with the lower bound one off
AddressValidLoose(address) ==
    address >= ExtAddrLow - 1 /\ address <= ExtAddrHigh

\* line 433 / 510: address < 0x4000 || address > 0x43FF
AddressValid(address) == address >= ExtAddrLow /\ address <= ExtAddrHigh

\* line 460: the echoed address, low byte first
AddressMatches(data, address) ==
    data[1] = Lo(address) /\ data[2] = Hi(address)

\* line 470-474: length_read = data[35] - 4 as a size_t, cut to length
LengthRead(lenByte, length) ==
    Min(SizeT(lenByte - 4), length)

\* line 476: memcpy(buf, data + 2, length_read)
CopyOut(buf, data, n) ==
    SubSeq(data, 3, 2 + n) \o SubSeq(buf, n + 1, Len(buf))

\* a variant that takes the received checksum for the computed one
TrustedSums(data, length) == {data[35]}

\* the checksum the driver computes over the received block; bytes past
\* the 36 of data[] are whatever the stack holds
ComputedSums(data, length) ==
    IF length <= 36 THEN {bq35100_compute_checksum(data, length)}
    ELSE 0..255

\* 426-442
read_extended_data_entry(t) ==
    /\ At(t, "read_extended_data", "entry")
    /\ LET f == [Top(t) EXCEPT !.prev = security_mode]
       IN  IF security_mode = BQ35100_SECURITY_UNKNOWN
           THEN Return(t, -EIO, f.buf)
           ELSE IF ~AddressValid(f.address)
           THEN Return(t, -EIO, f.buf)
           ELSE IF security_mode = BQ35100_SECURITY_SEALED
           THEN CallFn(t, [f EXCEPT !.pc = "unseal_ret"],
                       SsmFrame(BQ35100_SECURITY_UNSEALED))
           ELSE Goto(t, [f EXCEPT !.pc = "open"])
    /\ NoBus
    /\ Kept

\* 438-442: && !bq35100_set_security_mode(dev, UNSEALED)
read_extended_data_unseal_ret(t) ==
    /\ At(t, "read_extended_data", "unseal_ret")
    /\ LET f == Top(t)
       IN  IF CallerSeesFailure(ret[t].v)
           THEN Return(t, -EIO, f.buf)
           ELSE Goto(t, [f EXCEPT !.pc = "open"])
    /\ NoBus
    /\ Kept

\* 444-449: the address as a subcommand
read_extended_data_open(t) ==
    /\ At(t, "read_extended_data", "open")
    /\ \E fail \in FailChoices :
          LET f == Top(t)
              r == bq35100_control_reg_write(I2cResult(fail))
          IN  /\ BusWrite(t, "mac_control", LittleEndian16(f.address), 3,
                          fail)
              /\ IF r < 0 THEN Return(t, -EIO, f.buf)
                 ELSE Goto(t, [f EXCEPT !.pc = "burst"])
    /\ Kept

\* 451-484: the burst read, the checks, the copy and the way out
read_extended_data_burst(t) ==
    /\ At(t, "read_extended_data", "burst")
    /\ \E o \in FrameOutcomes :
          LET f      == Top(t)
              data   == o.data
              length == ChecksumLength(data[36])
          IN  /\ BusReadFrame(t, o)
              /\ IF I2cResult(~o.ok) < 0
                 THEN Return(t, -EIO, f.buf)
                 ELSE IF ~AddressMatches(data, f.address)
                 THEN Return(t, -1, f.buf)
                 ELSE IF ~ChecksumLoopEnds(length)
                 THEN Goto(t, [f EXCEPT !.pc = "checksum"])
                 ELSE \E sum \in ComputedSums(data, length) :
                        IF data[35] # sum
                        THEN Return(t, -EIO, f.buf)
                        ELSE LET n == LengthRead(data[36], f.length)
                                 b == CopyOut(f.buf, data, n)
                             IN  IF f.prev # security_mode
                                 THEN CallFn(t, [f EXCEPT !.pc = "restore_ret",
                                                          !.buf = b],
                                             SsmFrame(f.prev))
                                 ELSE Return(t, 1, b)
    /\ Kept

\* 481-484: bool success = set_security_mode(...); return success;
read_extended_data_restore_ret(t) ==
    /\ At(t, "read_extended_data", "restore_ret")
    /\ Return(t, IF ret[t].v # 0 THEN 1 ELSE 0, Top(t).buf)
    /\ NoBus
    /\ Kept

-----------------------------------------------------------------------------
(* bq35100_write_extended_data, ltc4150.c:495-575 *)

\* line 510: length < 1 || length > 32
LengthValid(length) == length >= 1 /\ length <= 32

\* a variant of line 547 that counts the address only: length + 2
MacDataLenShort(length) == (length + 2) % 256

\* line 547: d[1] = length + 4
MacDataLen(length) == (length + 4) % 256

\* line 561: status & BQ35100_FLASHF_BIT_MASK
FlashFailed(status) == BitSet(status, BQ35100_FLASHF_BIT_MASK)

\* 526-529: d[1..] = address low, address high, data
MacFrame(address, data) == <<Lo(address), Hi(address)>> \o data

\* 503-518
write_extended_data_entry(t) ==
    /\ At(t, "write_extended_data", "entry")
    /\ LET f == [Top(t) EXCEPT !.prev = security_mode]
       IN  IF security_mode = BQ35100_SECURITY_UNKNOWN
           THEN Return(t, -EIO, <<>>)
           ELSE IF ~AddressValid(f.address) \/ ~LengthValid(f.length)
           THEN Return(t, -EIO, <<>>)
           ELSE IF security_mode = BQ35100_SECURITY_SEALED
           THEN CallFn(t, [f EXCEPT !.pc = "unseal_ret"],
                       SsmFrame(BQ35100_SECURITY_UNSEALED))
           ELSE Goto(t, [f EXCEPT !.pc = "open"])
    /\ NoBus
    /\ Kept

\* 515-518: return false
write_extended_data_unseal_ret(t) ==
    /\ At(t, "write_extended_data", "unseal_ret")
    /\ LET f == Top(t)
       IN  IF CallerSeesFailure(ret[t].v)
           THEN Return(t, 0, <<>>)
           ELSE Goto(t, [f EXCEPT !.pc = "open"])
    /\ NoBus
    /\ Kept

\* 520-523
write_extended_data_open(t) ==
    /\ At(t, "write_extended_data", "open")
    /\ \E fail \in FailChoices :
          LET f == Top(t)
              r == bq35100_control_reg_write(I2cResult(fail))
          IN  /\ BusWrite(t, "mac_control", LittleEndian16(f.address), 3,
                          fail)
              /\ IF r < 0 THEN Return(t, -EIO, <<>>)
                 ELSE Goto(t, [f EXCEPT !.pc = "frame"])
    /\ Kept

\* 525-535: register, address and data in one write of 3 + length bytes
write_extended_data_frame(t) ==
    /\ At(t, "write_extended_data", "frame")
    /\ \E fail \in FailChoices :
          LET f == Top(t)
          IN  /\ BusWrite(t, "mac_frame", MacFrame(f.address, f.payload),
                          3 + f.length, fail)
              /\ IF I2cResult(fail) < 0 THEN Return(t, -EIO, <<>>)
                 ELSE Goto(t, [f EXCEPT !.pc = "sum"])
    /\ Kept

\* 537-543
write_extended_data_sum(t) ==
    /\ At(t, "write_extended_data", "sum")
    /\ \E fail \in FailChoices :
          LET f == Top(t)
              d == MacFrame(f.address, f.payload)
          IN  /\ BusWrite(t, "mac_sum",
                          <<bq35100_compute_checksum(d, f.length + 2)>>, 2,
                          fail)
              /\ IF I2cResult(fail) < 0 THEN Return(t, -EIO, <<>>)
                 ELSE Goto(t, [f EXCEPT !.pc = "len"])
    /\ Kept

\* 545-552
write_extended_data_len(t) ==
    /\ At(t, "write_extended_data", "len")
    /\ \E fail \in FailChoices :
          LET f == Top(t)
          IN  /\ BusWrite(t, "mac_len", <<MacDataLen(f.length)>>, 2, fail)
              /\ IF I2cResult(fail) < 0 THEN Return(t, -EIO, <<>>)
                 ELSE Goto(t, [f EXCEPT !.pc = "status"])
    /\ Kept

\* 554-574: the status check and the way out
write_extended_data_status(t) ==
    /\ At(t, "write_extended_data", "status")
    /\ \E o \in StatusOutcomes :
          LET f == Top(t)
          IN  /\ BusReadStatus(t, o)
              /\ IF bq35100_get_status(o) # 0
                 THEN Return(t, -EIO, <<>>)
                 ELSE IF FlashFailed(o.s)
                 THEN Return(t, -EIO, <<>>)
                 ELSE IF f.prev # security_mode
                 THEN CallFn(t, [f EXCEPT !.pc = "restore_ret"],
                             SsmFrame(f.prev))
                 ELSE Return(t, 1, <<>>)
    /\ Kept

\* 571-574: int success = set_security_mode(...); return success;
write_extended_data_restore_ret(t) ==
    /\ At(t, "write_extended_data", "restore_ret")
    /\ Return(t, ret[t].v, <<>>)
    /\ NoBus
    /\ Kept

-----------------------------------------------------------------------------
(* The callers: application threads entering the driver *)

TestAddresses == {ExtAddrLow - 1, ExtAddrLow, ExtAddrHigh, ExtAddrHigh + 1}

TestPayloads == {<<7, 200>>}

TestLengths == {2}

call_set_security_mode(t) ==
    \E target \in SecurityModes :
        Invoke(t, "set_security_mode", SsmFrame(target))

call_read_extended_data(t) ==
    \E a \in TestAddresses, n \in TestLengths :
        Invoke(t, "read_extended_data", RedFrame(a, Zeros(n), n))

call_write_extended_data(t) ==
    \E a \in TestAddresses, p \in TestPayloads :
        Invoke(t, "write_extended_data", WedFrame(a, p))

-----------------------------------------------------------------------------
(* Specifications *)

Idle == [op |-> "none", st |-> "idle", target |-> 0, address |-> 0,
         payload |-> <<>>, length |-> 0, entry |-> 0, gm |-> 0, ge |-> FALSE,
         dm |-> 0, faults0 |-> 0, ret |-> 0, buf |-> <<>>, args |-> <<>>]

\* The handle some time after bq35100_init (1740-1837): the cached mode is
\* one of the four modes; it need not be the mode of the chip, which is
\* power-cycled through its enable pin without the cache being refreshed.
InitWith(T, budget, calls) ==
    /\ \E m \in SecurityModes \ {BQ35100_SECURITY_UNKNOWN}, k \in BOOLEAN :
          dev = DevInit(m, k)
    /\ security_mode \in SecurityModes
    /\ gauge_mode = 0
    /\ gauge_enabled = FALSE
    /\ faults = budget
    /\ stack = [t \in T |-> <<>>]
    /\ ret = [t \in T |-> [v |-> 0, buf |-> <<>>]]
    /\ call = [t \in T |-> Idle]
    /\ log = [t \in T |-> <<>>]
    /\ quota = [t \in T |-> calls]
    /\ mid = [t \in T |-> "none"]
    /\ interleaved = FALSE
    /\ clobbered = FALSE
    /\ ltc4150_data = NoCounter

Init == InitWith({1}, MaxFaults, -1)

Next ==
    \/ \E t \in Threads : call_set_security_mode(t)
    \/ \E t \in Threads : call_read_extended_data(t)
    \/ \E t \in Threads : call_write_extended_data(t)
    \/ \E t \in Threads : set_security_mode_entry(t)
    \/ \E t \in Threads : set_security_mode_loop(t)
    \/ \E t \in Threads : set_security_mode_prereq_ret(t)
    \/ \E t \in Threads : set_security_mode_read_codes(t)
    \/ \E t \in Threads : set_security_mode_read_codes_ret(t)
    \/ \E t \in Threads : set_security_mode_code1(t)
    \/ \E t \in Threads : set_security_mode_code2(t)
    \/ \E t \in Threads : set_security_mode_seal(t)
    \/ \E t \in Threads : set_security_mode_readback(t)
    \/ \E t \in Threads : read_extended_data_entry(t)
    \/ \E t \in Threads : read_extended_data_unseal_ret(t)
    \/ \E t \in Threads : read_extended_data_open(t)
    \/ \E t \in Threads : read_extended_data_burst(t)
    \/ \E t \in Threads : read_extended_data_restore_ret(t)
    \/ \E t \in Threads : write_extended_data_entry(t)
    \/ \E t \in Threads : write_extended_data_unseal_ret(t)
    \/ \E t \in Threads : write_extended_data_open(t)
    \/ \E t \in Threads : write_extended_data_frame(t)
    \/ \E t \in Threads : write_extended_data_sum(t)
    \/ \E t \in Threads : write_extended_data_len(t)
    \/ \E t \in Threads : write_extended_data_status(t)
    \/ \E t \in Threads : write_extended_data_restore_ret(t)

Spec == Init /\ [][Next]_vars

\* Two application threads on one handle, one API call each; the bus and
\* the chip are sound and the cache is fresh
InitConcurrent ==
    /\ InitWith({1, 2}, 0, 1)
    /\ ~dev.deaf
    /\ security_mode = dev.mode

SpecConcurrent == InitConcurrent /\ [][Next]_vars

-----------------------------------------------------------------------------
(* bq35100_wait_for_status, ltc4150.c:696-719 *)

\* a variant of line 702 that allows a sixth read
PollOnceMore(i) == i < 6

\* line 702: for (i = 0; i < 5; i++)
PollAgain(i) == i < 5

\* line 708: (status & mask) == expected
StatusMatches(status, mask, expected) == BitAnd(status, mask) = expected

WfsFrame(expected, mask) ==
    Extend(Frame("wait_for_status", 0, 0, <<>>, 0, <<>>),
           [expected |-> expected, mask |-> mask])

\* a variant of the loop that keeps the security bits of each status it
\* reads in the handle, as bq35100_get_security_mode does
wait_for_status_read_caching(t) ==
    /\ At(t, "wait_for_status", "entry")
    /\ \E o \in StatusOutcomes :
          LET f == Top(t)
          IN  /\ BusReadStatus(t, o)
              /\ security_mode' = IF bq35100_get_status(o) < 0
                                  THEN security_mode ELSE SecurityBits(o.s)
              /\ IF bq35100_get_status(o) < 0
                 THEN Return(t, -1, <<>>)
                 ELSE IF StatusMatches(o.s, f.mask, f.expected)
                 THEN Return(t, 0, <<>>)
                 ELSE IF PollAgain(f.i + 1)
                 THEN Goto(t, [f EXCEPT !.i = @ + 1])
                 ELSE Return(t, -1, <<>>)
    /\ UNCHANGED <<gauge_mode, gauge_enabled, clobbered, quota,
                 ltc4150_data>>

\* 702-718: one turn of the loop, with the loop test that follows it
wait_for_status_read(t) ==
    /\ At(t, "wait_for_status", "entry")
    /\ \E o \in StatusOutcomes :
          LET f == Top(t)
          IN  /\ BusReadStatus(t, o)
              /\ IF bq35100_get_status(o) < 0
                 THEN Return(t, -1, <<>>)                           \* 705
                 ELSE IF StatusMatches(o.s, f.mask, f.expected)
                 THEN Return(t, 0, <<>>)                            \* 710
                 ELSE IF PollAgain(f.i + 1)
                 THEN Goto(t, [f EXCEPT !.i = @ + 1])
                 ELSE Return(t, -1, <<>>)                           \* 718
    /\ Kept

-----------------------------------------------------------------------------
(* bq35100_gauge_start and bq35100_gauge_stop, ltc4150.c:769-831 *)

\* a variant of line 790 that reports the gauge enabled after a timeout
EnabledAfterStartAlways(status) == TRUE

\* 788-794: gauge_enabled after the wait of gauge_start
EnabledAfterStart(status) == ~(status < 0)

\* 821-828: gauge_enabled after the wait of gauge_stop
EnabledAfterStop(status) == status < 0

\* a variant of line 774 that never takes the early return
NeverEnabled(enabled) == FALSE

\* line 774: if (dev_data->gauge_enabled) return 0;
AlreadyEnabled(enabled) == enabled

\* line 809: if (!dev_data->gauge_enabled) return 0;
AlreadyDisabled(enabled) == ~enabled

GaugeFrame(fn) == Frame(fn, 0, 0, <<>>, 0, <<>>)

\* 774-786
gauge_start_entry(t) ==
    /\ At(t, "gauge_start", "entry")
    /\ IF AlreadyEnabled(gauge_enabled)
       THEN Return(t, 0, <<>>) /\ NoBus
       ELSE \E fail \in FailChoices :
              LET status == bq35100_control_reg_write(I2cResult(fail))
              IN  /\ BusWrite(t, "mac_control",
                              LittleEndian16(BQ35100_CTRL_GAUGE_START), 3,
                              fail)
                  /\ IF status < 0 THEN Return(t, -EIO, <<>>)
                     ELSE CallFn(t, [Top(t) EXCEPT !.pc = "wait_ret"],
                                 WfsFrame(BQ35100_GA_BIT_MASK,
                                          BQ35100_GA_BIT_MASK))
    /\ Kept

\* 788-796
gauge_start_wait_ret(t) ==
    /\ At(t, "gauge_start", "wait_ret")
    /\ gauge_enabled' = EnabledAfterStart(ret[t].v)
    /\ Return(t, 0, <<>>)
    /\ NoBus
    /\ UNCHANGED <<security_mode, gauge_mode, clobbered, quota,
                 ltc4150_data>>

\* 809-821
gauge_stop_entry(t) ==
    /\ At(t, "gauge_stop", "entry")
    /\ IF AlreadyDisabled(gauge_enabled)
       THEN Return(t, 0, <<>>) /\ NoBus
       ELSE \E fail \in FailChoices :
              LET status == bq35100_control_reg_write(I2cResult(fail))
              IN  /\ BusWrite(t, "mac_control",
                              LittleEndian16(BQ35100_CTRL_GAUGE_STOP), 3,
                              fail)
                  /\ IF status < 0 THEN Return(t, -EIO, <<>>)
                     ELSE CallFn(t, [Top(t) EXCEPT !.pc = "wait_ret"],
                                 WfsFrame(0, BQ35100_GA_BIT_MASK))
    /\ Kept

\* 821-830
gauge_stop_wait_ret(t) ==
    /\ At(t, "gauge_stop", "wait_ret")
    /\ gauge_enabled' = EnabledAfterStop(ret[t].v)
    /\ Return(t, 0, <<>>)
    /\ NoBus
    /\ UNCHANGED <<security_mode, gauge_mode, clobbered, quota,
                 ltc4150_data>>

\* The chip completes the start or stop it was asked for, some time after
\* the subcommand
DeviceSettles ==
    /\ dev.pending # "none"
    /\ dev' = [dev EXCEPT !.ga = (dev.pending = "start"),
                          !.pending = "none"]
    /\ UNCHANGED <<handle, faults, stack, ret, call, log, quota, mid,
                   interleaved, clobbered, ltc4150_data>>

\* (expected, mask) pairs: the two the driver uses, and one that no status
\* can match
TestStatusPairs ==
    { <<BQ35100_GA_BIT_MASK, BQ35100_GA_BIT_MASK>>,
      <<0, BQ35100_GA_BIT_MASK>>,
      <<BQ35100_FLASHF_BIT_MASK, BQ35100_GA_BIT_MASK>> }

call_wait_for_status(t) ==
    \E p \in TestStatusPairs :
        Invoke(t, "wait_for_status", WfsFrame(p[1], p[2]))

call_gauge_start(t) == Invoke(t, "gauge_start", GaugeFrame("gauge_start"))

call_gauge_stop(t) == Invoke(t, "gauge_stop", GaugeFrame("gauge_stop"))

\* The handle and the chip some time after bq35100_init: gauging or not,
\* the cached flag not necessarily that of the chip
InitGauge ==
    /\ \E g \in BOOLEAN, k \in BOOLEAN :
          dev = [DevInit(BQ35100_SECURITY_SEALED, k) EXCEPT !.ga = g]
    /\ security_mode = BQ35100_SECURITY_SEALED
    /\ gauge_mode = 0
    /\ gauge_enabled \in BOOLEAN
    /\ faults = MaxFaults
    /\ stack = [t \in {1} |-> <<>>]
    /\ ret = [t \in {1} |-> [v |-> 0, buf |-> <<>>]]
    /\ call = [t \in {1} |-> Idle]
    /\ log = [t \in {1} |-> <<>>]
    /\ quota = [t \in {1} |-> -1]
    /\ mid = [t \in {1} |-> "none"]
    /\ interleaved = FALSE
    /\ clobbered = FALSE
    /\ ltc4150_data = NoCounter

NextGauge ==
    \/ \E t \in Threads : call_wait_for_status(t)
    \/ \E t \in Threads : call_gauge_start(t)
    \/ \E t \in Threads : call_gauge_stop(t)
    \/ \E t \in Threads : wait_for_status_read(t)
    \/ \E t \in Threads : gauge_start_entry(t)
    \/ \E t \in Threads : gauge_start_wait_ret(t)
    \/ \E t \in Threads : gauge_stop_entry(t)
    \/ \E t \in Threads : gauge_stop_wait_ret(t)
    \/ DeviceSettles

SpecGauge == InitGauge /\ [][NextGauge]_vars

-----------------------------------------------------------------------------
(* Block transfers over the whole range of arguments: at most two calls,   *)
(* a write and a read, on a sound bus                                      *)

\* the longest payload write_extended_data accepts (line 510)
MaxPayload == 32

\* addresses on both sides of the two bounds of lines 433 and 510, and the
\* ends of the uint16_t range
WideAddresses ==
    {0, ExtAddrLow - 1, ExtAddrLow, ExtAddrHigh, ExtAddrHigh + 1, 65535}

\* a payload of n bytes, most of them above 0x7F
Pattern(n) == [k \in 1..n |-> (k * 37 + 100) % 256]

\* payloads of every length around the bounds 1 and 32 of line 510
WidePayloads ==
    {Pattern(n) : n \in {0, 1, 2, MaxPayload - 1, MaxPayload, MaxPayload + 1}}

\* buffer sizes the reader offers
WideLengths == {1, 2, MaxPayload}

call_write_block(t) ==
    \E a \in WideAddresses, p \in WidePayloads :
        Invoke(t, "write_extended_data", WedFrame(a, p))

call_read_block(t) ==
    \E a \in WideAddresses, n \in WideLengths :
        Invoke(t, "read_extended_data", RedFrame(a, Zeros(n), n))

InitBlock == InitWith({1}, 0, 2)

NextBlock ==
    \/ \E t \in Threads : call_write_block(t)
    \/ \E t \in Threads : call_read_block(t)
    \/ \E t \in Threads : call_set_security_mode(t)
    \/ \E t \in Threads : set_security_mode_entry(t)
    \/ \E t \in Threads : set_security_mode_loop(t)
    \/ \E t \in Threads : set_security_mode_prereq_ret(t)
    \/ \E t \in Threads : set_security_mode_read_codes(t)
    \/ \E t \in Threads : set_security_mode_read_codes_ret(t)
    \/ \E t \in Threads : set_security_mode_code1(t)
    \/ \E t \in Threads : set_security_mode_code2(t)
    \/ \E t \in Threads : set_security_mode_seal(t)
    \/ \E t \in Threads : set_security_mode_readback(t)
    \/ \E t \in Threads : read_extended_data_entry(t)
    \/ \E t \in Threads : read_extended_data_unseal_ret(t)
    \/ \E t \in Threads : read_extended_data_open(t)
    \/ \E t \in Threads : read_extended_data_burst(t)
    \/ \E t \in Threads : read_extended_data_restore_ret(t)
    \/ \E t \in Threads : write_extended_data_entry(t)
    \/ \E t \in Threads : write_extended_data_unseal_ret(t)
    \/ \E t \in Threads : write_extended_data_open(t)
    \/ \E t \in Threads : write_extended_data_frame(t)
    \/ \E t \in Threads : write_extended_data_sum(t)
    \/ \E t \in Threads : write_extended_data_len(t)
    \/ \E t \in Threads : write_extended_data_status(t)
    \/ \E t \in Threads : write_extended_data_restore_ret(t)

SpecBlock == InitBlock /\ [][NextBlock]_vars

-----------------------------------------------------------------------------
(* Decoding of prepared blocks: one read_block call on a simulated device  *)
(* that answers with a block of a chosen length byte                       *)

\* length bytes of the prepared blocks
FrameLengths == 0..40 \cup {128, 255}

\* A block that echoes `address`, carries 32 data bytes, the length byte L
\* and the checksum the driver expects for it (line 465), where the 36
\* bytes determine one
PreparedFrame(address, L) ==
    LET body == LittleEndian16(address) \o Pattern(32)
        n    == ChecksumLength(L)
        sum  == IF n <= 34 THEN bq35100_compute_checksum(body, n) ELSE 0
    IN  body \o <<sum, L>>

\* the simulated device answers every block read with PreparedFrame; the
\* handle is unsealed and in step with the chip, the bus is sound
InitDecode ==
    /\ \E m \in {BQ35100_SECURITY_UNSEALED, BQ35100_SECURITY_FULL_ACCESS},
          L \in FrameLengths :
          /\ security_mode = m
          /\ dev = [DevInit(m, FALSE) EXCEPT
                       !.raw = PreparedFrame(ExtAddrLow, L)]
    /\ gauge_mode = 0
    /\ gauge_enabled = FALSE
    /\ faults = 0
    /\ stack = [t \in {1} |-> <<>>]
    /\ ret = [t \in {1} |-> [v |-> 0, buf |-> <<>>]]
    /\ call = [t \in {1} |-> Idle]
    /\ log = [t \in {1} |-> <<>>]
    /\ quota = [t \in {1} |-> 1]
    /\ mid = [t \in {1} |-> "none"]
    /\ interleaved = FALSE
    /\ clobbered = FALSE
    /\ ltc4150_data = NoCounter

\* the steps a read_block call takes when it is entered unsealed
NextDecode ==
    \/ \E t \in Threads : call_read_block(t)
    \/ \E t \in Threads : read_extended_data_entry(t)
    \/ \E t \in Threads : read_extended_data_open(t)
    \/ \E t \in Threads : read_extended_data_burst(t)

SpecDecode == InitDecode /\ [][NextDecode]_vars

-----------------------------------------------------------------------------
(* The checksum on its own: bq35100_compute_checksum (583-598) run one     *)
(* loop turn at a time over byte sequences of every length it is given     *)

\* the longest sequence: the 36 bytes of data[] (line 422)
MaxChecksumLength == 36

\* *data read through a const char *: a byte of 0x80 or more is negative
\* where the build makes char signed
CharValue(b, signed) == IF signed /\ b >= 128 THEN b - 256 ELSE b

\* an int stored in a uint8_t
Uint8(n) == n % 256

\* a variant that stops at 0xFF instead of wrapping
ChecksumAddClamped(checksum, c) ==
    IF checksum + c > 255 THEN 255
    ELSE IF checksum + c < 0 THEN 0 ELSE checksum + c

\* checksum += *data (line 590)
ChecksumAdd(checksum, c) == Uint8(checksum + c)

\* byte sequences of every length 0..36: mixed bytes, all 0xFF, all 0x80,
\* and small bytes
ByteRuns ==
    { [k \in 1..n |-> (k * p[1] + p[2]) % 256] :
        n \in 0..MaxChecksumLength,
        p \in {<<37, 100>>, <<0, 255>>, <<0, 128>>, <<1, 0>>} }

ChecksumFrame(data, signed) ==
    Extend(Frame("compute_checksum", 0, 0, data, Len(data), <<>>),
           [checksum |-> 0, signed |-> signed])

\* 585-588: checksum = 0, x = 1 (data is never NULL in this driver)
compute_checksum_entry(t) ==
    /\ At(t, "compute_checksum", "entry")
    /\ Goto(t, [Top(t) EXCEPT !.pc = "loop", !.checksum = 0, !.i = 1])
    /\ NoBus
    /\ Kept

\* 589-597: one turn of the loop, or the return of 0xFF - checksum
compute_checksum_loop(t) ==
    /\ At(t, "compute_checksum", "loop")
    /\ LET f == Top(t)
       IN  IF f.i <= f.length
           THEN Goto(t, [f EXCEPT
                    !.checksum = ChecksumAdd(f.checksum,
                                     CharValue(f.payload[f.i], f.signed)),
                    !.i = Uint8(f.i + 1)])
           ELSE Return(t, Uint8(255 - f.checksum), f.buf)
    /\ NoBus
    /\ Kept

call_compute_checksum(t) ==
    \E data \in ByteRuns, signed \in BOOLEAN :
        Invoke(t, "compute_checksum", ChecksumFrame(data, signed))

InitChecksum ==
    /\ dev = DevInit(BQ35100_SECURITY_SEALED, FALSE)
    /\ security_mode \in SecurityModes
    /\ gauge_mode = 0
    /\ gauge_enabled \in BOOLEAN
    /\ faults = 0
    /\ stack = [t \in {1} |-> <<>>]
    /\ ret = [t \in {1} |-> [v |-> 0, buf |-> <<>>]]
    /\ call = [t \in {1} |-> Idle]
    /\ log = [t \in {1} |-> <<>>]
    /\ quota = [t \in {1} |-> 1]
    /\ mid = [t \in {1} |-> "none"]
    /\ interleaved = FALSE
    /\ clobbered = FALSE
    /\ ltc4150_data = NoCounter

NextChecksum ==
    \/ \E t \in Threads : call_compute_checksum(t)
    \/ \E t \in Threads : compute_checksum_entry(t)
    \/ \E t \in Threads : compute_checksum_loop(t)

SpecChecksum == InitChecksum /\ [][NextChecksum]_vars

-----------------------------------------------------------------------------
(* The gauge mode: bq35100_set_gauge_mode (727-762) over the flag bytes    *)
(* the chip may hold, called once and then again with the same mode        *)

GaugeModes ==
    {BQ35100_ACCUMULATOR_MODE, BQ35100_SOH_MODE, BQ35100_EOS_MODE,
     BQ35100_UNKNOWN_MODE}

\* buf & 0b11
ModeBits(b) == b % 4

\* (buf & 0b11) != gauge_mode   (line 745)
ModeDiffers(b, mode) == ModeBits(b) # mode

\* buf = buf & ~0b11; buf |= (uint8_t)gauge_mode   (lines 746-747)
WithMode(b, mode) == (b - ModeBits(b)) + mode

\* what the uninitialised local buf may hold
UninitBytes == {0, 255}

\* flag bytes: every value of the low two bits, upper bits clear, set, mixed
TestFlags == {0, 1, 130, 255}

SgmFrame(mode, u) == Frame("set_gauge_mode", mode, 0, <<>>, 0, <<u>>)

\* 733-742
set_gauge_mode_entry(t) ==
    /\ At(t, "set_gauge_mode", "entry")
    /\ LET f == Top(t)
       IN  IF f.target = BQ35100_UNKNOWN_MODE
           THEN Return(t, -1, <<>>)
           ELSE CallFn(t, [f EXCEPT !.pc = "read_ret"],
                       RedFrame(BQ35100_FLASH_OPERATION_CFG_A, f.buf, 1))
    /\ NoBus
    /\ Kept

\* 739-752 and, when nothing is to be written, 759-761
set_gauge_mode_read_ret(t) ==
    /\ At(t, "set_gauge_mode", "read_ret")
    /\ LET f == Top(t)
           b == ret[t].buf[1]
       IN  IF ret[t].v < 0
           THEN Return(t, -EIO, <<>>) /\ UNCHANGED gauge_mode
           ELSE IF ModeDiffers(b, f.target)
           THEN /\ CallFn(t, [f EXCEPT !.pc = "write_ret",
                                       !.buf = <<WithMode(b, f.target)>>],
                          WedFrame(BQ35100_FLASH_OPERATION_CFG_A,
                                   <<WithMode(b, f.target)>>))
                /\ UNCHANGED gauge_mode
           ELSE /\ gauge_mode' = ModeBits(b)
                /\ Return(t, 0, <<>>)
    /\ NoBus
    /\ UNCHANGED <<security_mode, gauge_enabled, clobbered, quota,
                 ltc4150_data>>

\* 753-761
set_gauge_mode_write_ret(t) ==
    /\ At(t, "set_gauge_mode", "write_ret")
    /\ IF ret[t].v < 0
       THEN Return(t, -EIO, <<>>) /\ UNCHANGED gauge_mode
       ELSE /\ gauge_mode' = ModeBits(Top(t).buf[1])
            /\ Return(t, 0, <<>>)
    /\ NoBus
    /\ UNCHANGED <<security_mode, gauge_enabled, clobbered, quota,
                 ltc4150_data>>

call_set_gauge_mode(t) ==
    \E mode \in GaugeModes, u \in UninitBytes :
        Invoke(t, "set_gauge_mode", SgmFrame(mode, u))

\* the same call once more, right after one that succeeded
call_set_gauge_mode_again(t) ==
    /\ call[t].op = "set_gauge_mode"
    /\ call[t].st = "ret"
    /\ call[t].ret = 0
    /\ Invoke(t, "set_gauge_mode_again", call[t].args)

\* the handle after bq35100_init set the configured mode, the chip holding
\* any flag byte
InitMode ==
    /\ \E m \in SecurityModes \ {BQ35100_SECURITY_UNKNOWN}, k \in BOOLEAN,
          b \in TestFlags :
          dev = [DevInit(m, k) EXCEPT
                    !.mem[BQ35100_FLASH_OPERATION_CFG_A] = <<b>>]
    /\ security_mode \in SecurityModes
    /\ gauge_mode = BQ35100_ACCUMULATOR_MODE
    /\ gauge_enabled = FALSE
    /\ faults = MaxFaults
    /\ stack = [t \in {1} |-> <<>>]
    /\ ret = [t \in {1} |-> [v |-> 0, buf |-> <<>>]]
    /\ call = [t \in {1} |-> Idle]
    /\ log = [t \in {1} |-> <<>>]
    /\ quota = [t \in {1} |-> 2]
    /\ mid = [t \in {1} |-> "none"]
    /\ interleaved = FALSE
    /\ clobbered = FALSE
    /\ ltc4150_data = NoCounter

NextMode ==
    \/ \E t \in Threads : call_set_gauge_mode(t)
    \/ \E t \in Threads : call_set_gauge_mode_again(t)
    \/ \E t \in Threads : call_set_security_mode(t)
    \/ \E t \in Threads : set_gauge_mode_entry(t)
    \/ \E t \in Threads : set_gauge_mode_read_ret(t)
    \/ \E t \in Threads : set_gauge_mode_write_ret(t)
    \/ \E t \in Threads : set_security_mode_entry(t)
    \/ \E t \in Threads : set_security_mode_loop(t)
    \/ \E t \in Threads : set_security_mode_prereq_ret(t)
    \/ \E t \in Threads : set_security_mode_read_codes(t)
    \/ \E t \in Threads : set_security_mode_read_codes_ret(t)
    \/ \E t \in Threads : set_security_mode_code1(t)
    \/ \E t \in Threads : set_security_mode_code2(t)
    \/ \E t \in Threads : set_security_mode_seal(t)
    \/ \E t \in Threads : set_security_mode_readback(t)
    \/ \E t \in Threads : read_extended_data_entry(t)
    \/ \E t \in Threads : read_extended_data_unseal_ret(t)
    \/ \E t \in Threads : read_extended_data_open(t)
    \/ \E t \in Threads : read_extended_data_burst(t)
    \/ \E t \in Threads : read_extended_data_restore_ret(t)
    \/ \E t \in Threads : write_extended_data_entry(t)
    \/ \E t \in Threads : write_extended_data_unseal_ret(t)
    \/ \E t \in Threads : write_extended_data_open(t)
    \/ \E t \in Threads : write_extended_data_frame(t)
    \/ \E t \in Threads : write_extended_data_sum(t)
    \/ \E t \in Threads : write_extended_data_len(t)
    \/ \E t \in Threads : write_extended_data_status(t)
    \/ \E t \in Threads : write_extended_data_restore_ret(t)

SpecMode == InitMode /\ [][NextMode]_vars

-----------------------------------------------------------------------------
(* A new battery: bq35100_new_battery (838-853) and                        *)
(* bq35100_set_design_capacity (940-959)                                    *)

\* buf[0] = capacity >> 8; buf[1] = capacity   (lines 945-946)
CapacityBytes(capacity) == <<Hi(capacity), Lo(capacity)>>

\* no change of capacity, and a capacity whose two bytes differ
TestCapacities == {0, 2200}

CapFrame(fn, capacity) == Frame(fn, capacity, 0, <<>>, 0, <<>>)

\* 945-951
set_design_capacity_entry(t) ==
    /\ At(t, "set_design_capacity", "entry")
    /\ LET f == Top(t)
       IN  CallFn(t, [f EXCEPT !.pc = "write_ret"],
                  WedFrame(BQ35100_FLASH_CELL_DESIGN_CAPACITY_MAH,
                           CapacityBytes(f.target)))
    /\ NoBus
    /\ Kept

\* 953-958
set_design_capacity_write_ret(t) ==
    /\ At(t, "set_design_capacity", "write_ret")
    /\ Return(t, IF ret[t].v < 0 THEN -EIO ELSE 0, <<>>)
    /\ NoBus
    /\ Kept

\* 842: capacity != 0 && bq35100_set_design_capacity(dev, capacity)
new_battery_entry(t) ==
    /\ At(t, "new_battery", "entry")
    /\ LET f == Top(t)
       IN  IF f.target # 0
           THEN CallFn(t, [f EXCEPT !.pc = "capacity_ret"],
                       CapFrame("set_design_capacity", f.target))
           ELSE Goto(t, [f EXCEPT !.pc = "subcommand"])
    /\ NoBus
    /\ Kept

\* 842-844
new_battery_capacity_ret(t) ==
    /\ At(t, "new_battery", "capacity_ret")
    /\ IF ret[t].v # 0
       THEN Return(t, -EIO, <<>>)
       ELSE Goto(t, [Top(t) EXCEPT !.pc = "subcommand"])
    /\ NoBus
    /\ Kept

\* 846-852
new_battery_subcommand(t) ==
    /\ At(t, "new_battery", "subcommand")
    /\ \E fail \in FailChoices :
          LET status == bq35100_control_reg_write(I2cResult(fail))
          IN  /\ BusWrite(t, "mac_control",
                          LittleEndian16(BQ35100_CTRL_NEW_BATTERY), 3, fail)
              /\ Return(t, IF status < 0 THEN -EIO ELSE 0, <<>>)
    /\ Kept

call_new_battery(t) ==
    \E capacity \in TestCapacities :
        Invoke(t, "new_battery", CapFrame("new_battery", capacity))

call_set_design_capacity(t) ==
    \E capacity \in TestCapacities :
        Invoke(t, "set_design_capacity",
               CapFrame("set_design_capacity", capacity))

InitBattery == InitWith({1}, MaxFaults, 2)

NextBattery ==
    \/ \E t \in Threads : call_new_battery(t)
    \/ \E t \in Threads : call_set_design_capacity(t)
    \/ \E t \in Threads : new_battery_entry(t)
    \/ \E t \in Threads : new_battery_capacity_ret(t)
    \/ \E t \in Threads : new_battery_subcommand(t)
    \/ \E t \in Threads : set_design_capacity_entry(t)
    \/ \E t \in Threads : set_design_capacity_write_ret(t)
    \/ \E t \in Threads : call_set_security_mode(t)
    \/ \E t \in Threads : call_read_extended_data(t)
    \/ \E t \in Threads : call_write_extended_data(t)
    \/ \E t \in Threads : set_security_mode_entry(t)
    \/ \E t \in Threads : set_security_mode_loop(t)
    \/ \E t \in Threads : set_security_mode_prereq_ret(t)
    \/ \E t \in Threads : set_security_mode_read_codes(t)
    \/ \E t \in Threads : set_security_mode_read_codes_ret(t)
    \/ \E t \in Threads : set_security_mode_code1(t)
    \/ \E t \in Threads : set_security_mode_code2(t)
    \/ \E t \in Threads : set_security_mode_seal(t)
    \/ \E t \in Threads : set_security_mode_readback(t)
    \/ \E t \in Threads : read_extended_data_entry(t)
    \/ \E t \in Threads : read_extended_data_unseal_ret(t)
    \/ \E t \in Threads : read_extended_data_open(t)
    \/ \E t \in Threads : read_extended_data_burst(t)
    \/ \E t \in Threads : read_extended_data_restore_ret(t)
    \/ \E t \in Threads : write_extended_data_entry(t)
    \/ \E t \in Threads : write_extended_data_unseal_ret(t)
    \/ \E t \in Threads : write_extended_data_open(t)
    \/ \E t \in Threads : write_extended_data_frame(t)
    \/ \E t \in Threads : write_extended_data_sum(t)
    \/ \E t \in Threads : write_extended_data_len(t)
    \/ \E t \in Threads : write_extended_data_status(t)
    \/ \E t \in Threads : write_extended_data_restore_ret(t)

SpecBattery == InitBattery /\ [][NextBattery]_vars

-----------------------------------------------------------------------------
(* Power management: bq35100_device_pm_ctrl (1519-1554) with               *)
(* bq35100_set_gauge_enable (1503-1511), on a board with or without the    *)
(* gauge-enable pin                                                        *)

PmActions == {"resume", "suspend", "turn_off", "turn_on"}

PmStates == {"active", "suspended", "off"}

\* cfg->ge_gpio->name (line 1541): the name of the port when the pin is
\* configured; without the ge-gpios property ge_gpio is a null pointer and
\* the test reads through it, with any result
GePinNamed(wired) == IF wired THEN {TRUE} ELSE BOOLEAN

PmFrame(action, state) ==
    Extend(Frame("device_pm_ctrl", 0, 0, <<>>, 0, <<>>),
           [action |-> action, curr_state |-> state])

\* bq35100_set_gauge_enable: the pin is driven, which the log records;
\* without the ge-gpios property gpio_pin_set is handed a null port and
\* may do this or nothing
set_gauge_enable(t, enable) ==
    /\ \E driven \in GePinNamed(dev.wired) :
          IF driven
          THEN /\ dev' = [dev EXCEPT !.gepin = enable]
               /\ Transact(t, [op |-> "ge_pin", val |-> <<enable>>,
                               n |-> 0, ok |-> TRUE, d |-> Len(stack[t])])
          ELSE UNCHANGED <<dev, log, mid, interleaved>>
    /\ UNCHANGED faults

\* 1527-1552, up to the call of gauge_start or gauge_stop
device_pm_ctrl_entry(t) ==
    /\ At(t, "device_pm_ctrl", "entry")
    /\ LET f == Top(t)
       IN  CASE f.action = "resume" ->
                  IF f.curr_state = "off"
                  THEN /\ set_gauge_enable(t, TRUE)
                       /\ CallFn(t, [f EXCEPT !.pc = "start_ret"],
                                 GaugeFrame("gauge_start"))
                  ELSE Return(t, 0, <<>>) /\ NoBus
             [] f.action = "suspend" ->
                  Return(t, -ENOTSUP, <<>>) /\ NoBus
             [] f.action = "turn_off" ->
                  /\ \E named \in GePinNamed(dev.wired) :
                        IF named
                        THEN CallFn(t, [f EXCEPT !.pc = "stop_ret"],
                                    GaugeFrame("gauge_stop"))
                        ELSE Return(t, -ENOTSUP, <<>>)
                  /\ NoBus
             [] OTHER -> Return(t, -ENOTSUP, <<>>) /\ NoBus
    /\ Kept

\* 1534 and 1553: ret = bq35100_gauge_start(dev)
device_pm_ctrl_start_ret(t) ==
    /\ At(t, "device_pm_ctrl", "start_ret")
    /\ Return(t, ret[t].v, <<>>)
    /\ NoBus
    /\ Kept

\* 1542-1543 and 1553
device_pm_ctrl_stop_ret(t) ==
    /\ At(t, "device_pm_ctrl", "stop_ret")
    /\ set_gauge_enable(t, FALSE)
    /\ Return(t, 0, <<>>)
    /\ Kept

call_device_pm_ctrl(t) ==
    \E action \in PmActions, state \in PmStates :
        Invoke(t, "device_pm_ctrl", PmFrame(action, state))

\* the board: the gauge-enable pin wired and configured, or not
InitPower ==
    /\ \E g \in BOOLEAN, k \in BOOLEAN, w \in BOOLEAN :
          dev = Extend([DevInit(BQ35100_SECURITY_SEALED, k) EXCEPT !.ga = g],
                       [gepin |-> TRUE, wired |-> w])
    /\ security_mode = BQ35100_SECURITY_SEALED
    /\ gauge_mode = 0
    /\ gauge_enabled \in BOOLEAN
    /\ faults = MaxFaults
    /\ stack = [t \in {1} |-> <<>>]
    /\ ret = [t \in {1} |-> [v |-> 0, buf |-> <<>>]]
    /\ call = [t \in {1} |-> Idle]
    /\ log = [t \in {1} |-> <<>>]
    /\ quota = [t \in {1} |-> -1]
    /\ mid = [t \in {1} |-> "none"]
    /\ interleaved = FALSE
    /\ clobbered = FALSE
    /\ ltc4150_data = NoCounter

NextPower ==
    \/ \E t \in Threads : call_device_pm_ctrl(t)
    \/ \E t \in Threads : device_pm_ctrl_entry(t)
    \/ \E t \in Threads : device_pm_ctrl_start_ret(t)
    \/ \E t \in Threads : device_pm_ctrl_stop_ret(t)
    \/ \E t \in Threads : wait_for_status_read(t)
    \/ \E t \in Threads : gauge_start_entry(t)
    \/ \E t \in Threads : gauge_start_wait_ret(t)
    \/ \E t \in Threads : gauge_stop_entry(t)
    \/ \E t \in Threads : gauge_stop_wait_ret(t)
    \/ DeviceSettles

SpecPower == InitPower /\ [][NextPower]_vars

-----------------------------------------------------------------------------
(* Raw calibration data: bq35100_enter_cal_mode (1204-1222) and            *)
(* bq35100_get_raw_cal_data (1231-1279), against a chip that reports a     *)
(* sample counter and a sample for every poll                              *)

\* registers read by bq35100_get_raw_cal_data
BQ35100_CMD_CAL_CURRENT == 122

BQ35100_CMD_CAL_VOLTAGE == 124

BQ35100_CMD_CAL_TEMPERATURE == 126

\* a 16-bit register value read as int16_t
Int16(v) == IF v % 65536 >= 32768 THEN (v % 65536) - 65536 ELSE v % 65536

\* the poll the chip is at: <<counter, sample>>
DevPoll(d) == d.script[d.pos]

\* a read of CAL_COUNT opens the next poll; after the last poll of the
\* script the chip takes no more samples and the counter stays
DevNextPoll(d) ==
    [d EXCEPT !.pos = IF @ < Len(d.script) THEN @ + 1 ELSE @,
              !.key = "none"]

\* what uint16_t buf[1], which bq35100_reg_read never writes, may hold
UninitWords == {0, 1}

\* adc_counter_prev == buf[0]   (line 1251: uint8_t against uint16_t)
CounterUnchanged(prev, count) == prev % 256 = count

\* (buf[1] << 8) + buf[0]   (line 1261)
SampleTerm(hi, lo) == hi * 256 + lo

\* avg /= 4; *result = (int16_t)avg   (lines 1270-1274)
AverageOf(avg) == Int16(avg \div 4)

EcmFrame(enable) ==
    Extend(Frame("enter_cal_mode", 0, 0, <<>>, 0, <<>>), [enable |-> enable])

RawFrame(command, hi) ==
    Extend(Frame("get_raw_cal_data", command, 0, <<>>, 0, <<>>),
           [avg |-> 0, hi |-> hi])

\* 1208-1216
enter_cal_mode_entry(t) ==
    /\ At(t, "enter_cal_mode", "entry")
    /\ \E fail \in FailChoices :
          LET f      == Top(t)
              status == bq35100_control_reg_write(I2cResult(fail))
              bit    == IF f.enable THEN BQ35100_CAL_MODE_BIT_MASK ELSE 0
          IN  /\ BusWrite(t, "mac_control",
                          LittleEndian16(IF f.enable
                                         THEN BQ35100_CTRL_ENTER_CAL
                                         ELSE BQ35100_CTRL_EXIT_CAL),
                          3, fail)
              /\ IF status < 0 THEN Return(t, -EIO, <<>>)
                 ELSE CallFn(t, [f EXCEPT !.pc = "wait_ret"],
                             WfsFrame(bit, BQ35100_CAL_MODE_BIT_MASK))
    /\ Kept

\* 1216-1222: the result of the wait is logged and dropped
enter_cal_mode_wait_ret(t) ==
    /\ At(t, "enter_cal_mode", "wait_ret")
    /\ Return(t, 0, <<>>)
    /\ NoBus
    /\ Kept

\* 1238
get_raw_cal_data_entry(t) ==
    /\ At(t, "get_raw_cal_data", "entry")
    /\ CallFn(t, [Top(t) EXCEPT !.pc = "enter_ret", !.prev = 0, !.i = 0],
              EcmFrame(TRUE))
    /\ NoBus
    /\ Kept

\* 1238-1241
get_raw_cal_data_enter_ret(t) ==
    /\ At(t, "get_raw_cal_data", "enter_ret")
    /\ IF ret[t].v < 0
       THEN Return(t, -EIO, <<>>)
       ELSE Goto(t, [Top(t) EXCEPT !.pc = "poll"])
    /\ NoBus
    /\ Kept

\* 1246-1253: read CAL_COUNT; go round again when it has not changed
get_raw_cal_data_poll(t) ==
    /\ At(t, "get_raw_cal_data", "poll")
    /\ \E fail \in FailChoices :
          LET f     == Top(t)
              d     == DevNextPoll(dev)
              count == DevPoll(d)[1]
          IN  /\ dev' = IF fail THEN dev ELSE d
              /\ faults' = IF fail THEN faults - 1 ELSE faults
              /\ Transact(t, [op |-> "cal_count",
                              val |-> LittleEndian16(count), n |-> 2,
                              ok |-> ~fail, d |-> Len(stack[t])])
              /\ IF I2cResult(fail) < 0
                 THEN Return(t, -EIO, <<>>)
                 ELSE IF CounterUnchanged(f.prev, count)
                 THEN Goto(t, f)
                 ELSE Goto(t, [f EXCEPT !.pc = "sample",
                                        !.prev = count % 256])
    /\ Kept

\* 1255-1268: read the sample, add it, count it
get_raw_cal_data_sample(t) ==
    /\ At(t, "get_raw_cal_data", "sample")
    /\ \E fail \in FailChoices :
          LET f      == Top(t)
              sample == DevPoll(dev)[2]
              g      == [f EXCEPT !.avg = @ + SampleTerm(f.hi, sample),
                                  !.i = @ + 1]
          IN  /\ dev' = IF fail THEN dev ELSE [dev EXCEPT !.key = "none"]
              /\ faults' = IF fail THEN faults - 1 ELSE faults
              /\ Transact(t, [op |-> "cal_data",
                              val |-> LittleEndian16(sample), n |-> 2,
                              ok |-> ~fail, d |-> Len(stack[t])])
              /\ IF I2cResult(fail) < 0
                 THEN Return(t, -EIO, <<>>)
                 ELSE IF g.i = 4
                 THEN CallFn(t, [g EXCEPT !.pc = "exit_ret"],
                             EcmFrame(FALSE))
                 ELSE Goto(t, [g EXCEPT !.pc = "poll"])
    /\ Kept

\* 1270-1281
get_raw_cal_data_exit_ret(t) ==
    /\ At(t, "get_raw_cal_data", "exit_ret")
    /\ IF ret[t].v < 0
       THEN Return(t, -EIO, <<AverageOf(Top(t).avg)>>)
       ELSE Return(t, 0, <<AverageOf(Top(t).avg)>>)
    /\ NoBus
    /\ Kept

\* one <<counter, sample>> pair for every poll
Script(counters, samples) ==
    [k \in 1..Len(counters) |-> <<counters[k], samples[k]>>]

\* counters that repeat, start at 0, exceed 255; samples of both signs
TestScripts ==
    { Script(<<5, 5, 6, 6, 7, 8, 8, 9>>, <<10, 10, 12, 12, 14, 16, 16, 18>>),
      Script(<<0, 1, 1, 2, 3, 4>>, <<7, 8, 8, 9, 10, 13>>),
      Script(<<300, 300, 301, 302, 303>>, <<10, 20, 30, 40, 50>>),
      Script(<<1, 1, 2, 3, 4, 5>>,
             <<65532, 65532, 65532, 65532, 65532, 65528>>),
      Script(<<1, 1, 2, 3, 4, 5>>, <<9, 9, 65532, 65532, 4, 4>>) }

call_get_raw_cal_data(t) ==
    \E command \in {BQ35100_CMD_CAL_VOLTAGE, BQ35100_CMD_CAL_TEMPERATURE},
       hi \in UninitWords :
        Invoke(t, "get_raw_cal_data", RawFrame(command, hi))

InitAverage ==
    /\ \E sc \in TestScripts :
          dev = [DevInit(BQ35100_SECURITY_UNSEALED, FALSE)
                    EXCEPT !.script = sc]
    /\ security_mode = BQ35100_SECURITY_UNSEALED
    /\ gauge_mode = 0
    /\ gauge_enabled = FALSE
    /\ faults = MaxFaults
    /\ stack = [t \in {1} |-> <<>>]
    /\ ret = [t \in {1} |-> [v |-> 0, buf |-> <<>>]]
    /\ call = [t \in {1} |-> Idle]
    /\ log = [t \in {1} |-> <<>>]
    /\ quota = [t \in {1} |-> 1]
    /\ mid = [t \in {1} |-> "none"]
    /\ interleaved = FALSE
    /\ clobbered = FALSE
    /\ ltc4150_data = NoCounter

NextAverage ==
    \/ \E t \in Threads : call_get_raw_cal_data(t)
    \/ \E t \in Threads : get_raw_cal_data_entry(t)
    \/ \E t \in Threads : get_raw_cal_data_enter_ret(t)
    \/ \E t \in Threads : get_raw_cal_data_poll(t)
    \/ \E t \in Threads : get_raw_cal_data_sample(t)
    \/ \E t \in Threads : get_raw_cal_data_exit_ret(t)
    \/ \E t \in Threads : enter_cal_mode_entry(t)
    \/ \E t \in Threads : enter_cal_mode_wait_ret(t)
    \/ \E t \in Threads : wait_for_status_read(t)

SpecAverage == InitAverage /\ [][NextAverage]_vars

-----------------------------------------------------------------------------
(* bq35100_cal_voltage, ltc4150.c:1291-1318, and bq35100_cal_temp,         *)
(* ltc4150.c:1393-1433                                                     *)

\* what int16_t avg_voltage, which has no initialiser, may hold
UninitAverages == {0, 269}

\* the known values the caller passes (mV, 0.1 K)
TestKnown == {0, 140, 141}

\* a variant of the range test for an unsigned byte
OffsetFitsUnsigned(offset) == ~(offset < 0 \/ offset > 255)

\* offset < -128 || offset > 127   (lines 1304 and 1419), negated
OffsetFits(offset) == ~(offset < -128 \/ offset > 127)

\* buf[0] = (int8_t)offset   (lines 1309 and 1424): a uint8_t
OffsetByte(offset) == offset % 256

\* external = (buf[0] & 0b10000000)   (line 1405)
ExternalSource(b) == (b \div 128) % 2 = 1

CalFrame(fn, known, avg, u) ==
    Extend(Frame(fn, known, 0, <<>>, 0, <<u>>),
           [avg |-> avg, averaged |-> FALSE, offset |-> 0,
            external |-> FALSE])

\* 1297
cal_voltage_entry(t) ==
    /\ At(t, "cal_voltage", "entry")
    /\ \E hi \in UninitWords :
          CallFn(t, [Top(t) EXCEPT !.pc = "raw_ret"],
                 RawFrame(BQ35100_CMD_CAL_VOLTAGE, hi))
    /\ NoBus
    /\ Kept

\* 1297-1312: a failure of the averaging is logged and nothing else; what
\* avg_voltage holds then is what it held before the call
cal_voltage_raw_ret(t) ==
    /\ At(t, "cal_voltage", "raw_ret")
    /\ LET f      == Top(t)
           avg    == IF ret[t].buf # <<>> THEN ret[t].buf[1] ELSE f.avg
           offset == f.target - avg
           g      == [f EXCEPT !.avg = avg, !.averaged = ~(ret[t].v < 0),
                               !.offset = offset]
       IN  IF ~OffsetFits(offset)
           THEN Return(t, -EIO, <<>>)
           ELSE CallFn(t, [g EXCEPT !.pc = "write_ret"],
                       WedFrame(BQ35100_FLASH_PACK_V_OFFSET,
                                <<OffsetByte(offset)>>))
    /\ NoBus
    /\ Kept

\* 1312-1317
cal_voltage_write_ret(t) ==
    /\ At(t, "cal_voltage", "write_ret")
    /\ IF ret[t].v < 0 THEN Return(t, -EIO, <<>>) ELSE Return(t, 0, <<>>)
    /\ NoBus
    /\ Kept

\* 1400
cal_temp_entry(t) ==
    /\ At(t, "cal_temp", "entry")
    /\ LET f == Top(t)
       IN  CallFn(t, [f EXCEPT !.pc = "flag_ret"],
                  RedFrame(BQ35100_FLASH_OPERATION_CFG_A, f.buf, 1))
    /\ NoBus
    /\ Kept

\* 1400-1410
cal_temp_flag_ret(t) ==
    /\ At(t, "cal_temp", "flag_ret")
    /\ LET f == Top(t)
       IN  IF ret[t].v < 0
           THEN Return(t, -EIO, <<>>)
           ELSE \E hi \in UninitWords :
                   CallFn(t, [f EXCEPT !.pc = "raw_ret",
                                       !.external =
                                           ExternalSource(ret[t].buf[1])],
                          RawFrame(BQ35100_CMD_CAL_TEMPERATURE, hi))
    /\ NoBus
    /\ Kept

\* 1410-1428
cal_temp_raw_ret(t) ==
    /\ At(t, "cal_temp", "raw_ret")
    /\ LET f      == Top(t)
           avg    == IF ret[t].buf # <<>> THEN ret[t].buf[1] ELSE f.avg
           offset == f.target - avg
           g      == [f EXCEPT !.avg = avg, !.averaged = TRUE,
                               !.offset = offset]
       IN  IF ret[t].v < 0 \/ ~OffsetFits(offset)
           THEN Return(t, -EIO, <<>>)
           ELSE CallFn(t, [g EXCEPT !.pc = "write_ret"],
                       WedFrame(IF f.external
                                THEN BQ35100_FLASH_EXT_TEMP_OFFSET
                                ELSE BQ35100_FLASH_INT_TEMP_OFFSET,
                                <<OffsetByte(offset)>>))
    /\ NoBus
    /\ Kept

\* 1427-1432
cal_temp_write_ret(t) ==
    /\ At(t, "cal_temp", "write_ret")
    /\ IF ret[t].v < 0 THEN Return(t, -EIO, <<>>) ELSE Return(t, 0, <<>>)
    /\ NoBus
    /\ Kept

call_cal_voltage(t) ==
    \E voltage \in TestKnown, avg \in UninitAverages :
        Invoke(t, "cal_voltage", CalFrame("cal_voltage", voltage, avg, 0))

call_cal_temp(t) ==
    \E temp \in TestKnown, avg \in UninitAverages, u \in UninitBytes :
        Invoke(t, "cal_temp", CalFrame("cal_temp", temp, avg, u))

CalScripts ==
    { Script(<<5, 5, 6, 6, 7, 8, 8, 9>>, <<10, 10, 12, 12, 14, 16, 16, 18>>),
      Script(<<1, 1, 2, 3, 4, 5>>,
             <<65532, 65532, 65532, 65532, 65532, 65528>>) }

\* <<mode of the chip, deaf, cached mode>>: a handle in step with a sealed
\* or an unsealed chip, and one that caches SEALED while the chip, which
\* ignores the seal subcommand, is in full access
CalHandles ==
    { <<BQ35100_SECURITY_SEALED, FALSE, BQ35100_SECURITY_SEALED>>,
      <<BQ35100_SECURITY_UNSEALED, FALSE, BQ35100_SECURITY_UNSEALED>>,
      <<BQ35100_SECURITY_FULL_ACCESS, TRUE, BQ35100_SECURITY_SEALED>> }

\* One call; the temperature source flag of Operation Config A is clear or
\* set
InitCal ==
    /\ \E h \in CalHandles, sc \in CalScripts, b \in {0, 128} :
          /\ dev = [DevInit(h[1], h[2]) EXCEPT
                       !.script = sc,
                       !.mem[BQ35100_FLASH_OPERATION_CFG_A] = <<b>>]
          /\ security_mode = h[3]
    /\ gauge_mode = 0
    /\ gauge_enabled = FALSE
    /\ faults = MaxFaults
    /\ stack = [t \in {1} |-> <<>>]
    /\ ret = [t \in {1} |-> [v |-> 0, buf |-> <<>>]]
    /\ call = [t \in {1} |-> Idle]
    /\ log = [t \in {1} |-> <<>>]
    /\ quota = [t \in {1} |-> 1]
    /\ mid = [t \in {1} |-> "none"]
    /\ interleaved = FALSE
    /\ clobbered = FALSE
    /\ ltc4150_data = NoCounter

NextCal ==
    \/ \E t \in Threads : call_cal_voltage(t)
    \/ \E t \in Threads : call_cal_temp(t)
    \/ \E t \in Threads : call_set_security_mode(t)
    \/ \E t \in Threads : cal_voltage_entry(t)
    \/ \E t \in Threads : cal_voltage_raw_ret(t)
    \/ \E t \in Threads : cal_voltage_write_ret(t)
    \/ \E t \in Threads : cal_temp_entry(t)
    \/ \E t \in Threads : cal_temp_flag_ret(t)
    \/ \E t \in Threads : cal_temp_raw_ret(t)
    \/ \E t \in Threads : cal_temp_write_ret(t)
    \/ NextAverage
    \/ \E t \in Threads : set_security_mode_entry(t)
    \/ \E t \in Threads : set_security_mode_loop(t)
    \/ \E t \in Threads : set_security_mode_prereq_ret(t)
    \/ \E t \in Threads : set_security_mode_read_codes(t)
    \/ \E t \in Threads : set_security_mode_read_codes_ret(t)
    \/ \E t \in Threads : set_security_mode_code1(t)
    \/ \E t \in Threads : set_security_mode_code2(t)
    \/ \E t \in Threads : set_security_mode_seal(t)
    \/ \E t \in Threads : set_security_mode_readback(t)
    \/ \E t \in Threads : read_extended_data_entry(t)
    \/ \E t \in Threads : read_extended_data_unseal_ret(t)
    \/ \E t \in Threads : read_extended_data_open(t)
    \/ \E t \in Threads : read_extended_data_burst(t)
    \/ \E t \in Threads : read_extended_data_restore_ret(t)
    \/ \E t \in Threads : write_extended_data_entry(t)
    \/ \E t \in Threads : write_extended_data_unseal_ret(t)
    \/ \E t \in Threads : write_extended_data_open(t)
    \/ \E t \in Threads : write_extended_data_frame(t)
    \/ \E t \in Threads : write_extended_data_sum(t)
    \/ \E t \in Threads : write_extended_data_len(t)
    \/ \E t \in Threads : write_extended_data_status(t)
    \/ \E t \in Threads : write_extended_data_restore_ret(t)

SpecCal == InitCal /\ [][NextCal]_vars

-----------------------------------------------------------------------------
(* bq35100_get_sensor_data, ltc4150.c:1589-1600, its getters, 860-907 and  *)
(* 966-972, and bq35100_sample_fetch, 1608-1623                            *)

\* what the chip may hold in a measurement register
TestReadings == {0, 2981}

\* the fields of struct bq35100_data that a fetch fills, in the order of
\* lines 1591-1597
FetchFields ==
    <<"temperature", "internal_temperature", "voltage", "avg_current",
      "state_of_health", "acc_capacity", "design_capacity">>

\* the number of bytes each getter asks bq35100_reg_read for
FetchLength(field) ==
    CASE field = "state_of_health" -> 1
      [] field = "acc_capacity"    -> 4
      [] OTHER                     -> 2

\* bq35100_get_avg_current, line 901: no read while the gauge is off
GaugeOffBlocks(field, enabled) == field = "avg_current" /\ ~enabled

\* stands in the fetched data for a field the call left as it was
NotFetched == -1

FetchFrame(fn, pm, state) ==
    Extend(Frame(fn, 0, 0, <<>>, 0, <<>>),
           [pm |-> pm, state |-> state, data |-> <<>>])

\* 1611-1622: with CONFIG_PM_DEVICE the fetch needs the active state
sample_fetch_entry(t) ==
    /\ At(t, "sample_fetch", "entry")
    /\ LET f == Top(t)
       IN  IF f.pm /\ f.state # "active"
           THEN Return(t, -ENXIO, <<>>)
           ELSE CallFn(t, [f EXCEPT !.pc = "data_ret"],
                       FetchFrame("get_sensor_data", f.pm, f.state))
    /\ NoBus
    /\ Kept

\* 1622
sample_fetch_data_ret(t) ==
    /\ At(t, "sample_fetch", "data_ret")
    /\ Return(t, ret[t].v, ret[t].buf)
    /\ NoBus
    /\ Kept

\* one getter of lines 1591-1597: bq35100_reg_read (309-336) stores what
\* its buffer holds whether or not the transfer succeeded, and the value
\* the getter returns is dropped; after the seventh, return 0 (line 1599)
get_sensor_data_step(t) ==
    /\ At(t, "get_sensor_data", "entry")
    /\ LET f     == Top(t)
           field == FetchFields[Len(f.data) + 1]
           Move(v) ==
               LET g == [f EXCEPT !.data = Append(@, v)]
               IN  IF Len(g.data) = Len(FetchFields)
                   THEN Return(t, 0, g.data)
                   ELSE Goto(t, g)
       IN  IF GaugeOffBlocks(field, gauge_enabled)
           THEN /\ Move(NotFetched)
                /\ NoBus
           ELSE \E fail \in FailChoices :
                   \E v \in IF fail THEN UninitWords ELSE TestReadings :
                      /\ dev' = IF fail THEN dev
                                ELSE [dev EXCEPT !.key = "none"]
                      /\ faults' = IF fail THEN faults - 1 ELSE faults
                      /\ Transact(t, [op |-> field,
                                      val |-> <<v>>,
                                      n |-> FetchLength(field),
                                      ok |-> ~fail, d |-> Len(stack[t])])
                      /\ Move(v)
    /\ Kept

call_get_sensor_data(t) ==
    Invoke(t, "get_sensor_data", FetchFrame("get_sensor_data", FALSE, "active"))

call_sample_fetch(t) ==
    \E pm \in BOOLEAN, state \in PmStates :
        Invoke(t, "sample_fetch", FetchFrame("sample_fetch", pm, state))

\* The handle and the chip some time after bq35100_init: gauging or not
InitFetch ==
    /\ \E m \in {BQ35100_SECURITY_SEALED, BQ35100_SECURITY_UNSEALED},
          g \in BOOLEAN :
          dev = [DevInit(m, FALSE) EXCEPT !.ga = g]
    /\ security_mode = dev.mode
    /\ gauge_mode = 0
    /\ gauge_enabled \in BOOLEAN
    /\ faults = MaxFaults
    /\ stack = [t \in {1} |-> <<>>]
    /\ ret = [t \in {1} |-> [v |-> 0, buf |-> <<>>]]
    /\ call = [t \in {1} |-> Idle]
    /\ log = [t \in {1} |-> <<>>]
    /\ quota = [t \in {1} |-> 1]
    /\ mid = [t \in {1} |-> "none"]
    /\ interleaved = FALSE
    /\ clobbered = FALSE
    /\ ltc4150_data = NoCounter

NextFetch ==
    \/ \E t \in Threads : call_get_sensor_data(t)
    \/ \E t \in Threads : call_sample_fetch(t)
    \/ \E t \in Threads : sample_fetch_entry(t)
    \/ \E t \in Threads : sample_fetch_data_ret(t)
    \/ \E t \in Threads : get_sensor_data_step(t)

SpecFetch == InitFetch /\ [][NextFetch]_vars

-----------------------------------------------------------------------------
(* bq35100_init, ltc4150.c:1740-1837, with bq35100_probe, 1688-1712,       *)
(* bq35100_init_ge_pin, 1720-1733, and bq35100_use_int_temp, 1164-1194     *)

\* the three devicetree properties the function reads, and whether the
\* node has ge-gpios
TestConfigs ==
    [gauge_mode : {BQ35100_ACCUMULATOR_MODE, BQ35100_SOH_MODE},
     temp_sensor_src : BOOLEAN,
     design_capacity : {2200},
     wired : BOOLEAN]

\* a variant of the test of line 1808 that lets nothing through
SealFailedAlways(status) == TRUE

\* if (bq35100_set_security_mode(dev, BQ35100_SECURITY_SEALED))   (1808)
SealFailed(status) == status # 0

\* !(buf >> 7) != enable   (line 1174)
SourceDiffers(b, enable) == ((b \div 128) % 2 = 0) # enable

\* buf &= ~0b10000000 or buf |= 0b10000000   (lines 1175-1180)
WithSource(b, enable) == IF enable THEN b % 128 ELSE (b % 128) + 128

InitFrame(cfg) ==
    Extend(Frame("init", 0, 0, <<>>, 0, <<>>), [cfg |-> cfg])

UitFrame(enable, u) ==
    Extend(Frame("use_int_temp", 0, 0, <<>>, 0, <<u>>), [enable |-> enable])

\* 1744-1756: the flag is cleared; the enable pin, if the node names one
\* and its port is ready (1724), is configured active; the bus must be
\* ready
init_entry(t) ==
    /\ At(t, "init", "entry")
    /\ gauge_enabled' = FALSE
    /\ \E named \in GePinNamed(dev.wired), port \in BOOLEAN,
          ready \in BOOLEAN :
          LET f == Top(t)
          IN  IF named /\ ~(dev.wired /\ port)
              THEN Return(t, -ENODEV, <<>>) /\ NoBus
              ELSE IF ~ready
              THEN Return(t, -ENODEV, <<>>) /\ NoBus
              ELSE /\ Goto(t, [f EXCEPT !.pc = "probe"])
                   /\ IF named
                      THEN /\ dev' = [dev EXCEPT !.gepin = TRUE]
                           /\ Transact(t, [op |-> "ge_pin", val |-> <<TRUE>>,
                                           n |-> 0, ok |-> TRUE,
                                           d |-> Len(stack[t])])
                           /\ UNCHANGED faults
                      ELSE NoBus
    /\ UNCHANGED <<security_mode, gauge_mode, clobbered, quota,
                 ltc4150_data>>

\* 1758 and 1693-1697: the DEVICE_TYPE subcommand
init_probe(t) ==
    /\ At(t, "init", "probe")
    /\ \E fail \in FailChoices :
          LET status == bq35100_control_reg_write(I2cResult(fail))
          IN  /\ BusWrite(t, "mac_control",
                          LittleEndian16(BQ35100_CTRL_DEVICE_TYPE), 3, fail)
              /\ IF status < 0 THEN Return(t, -ENODEV, <<>>)
                 ELSE Goto(t, [Top(t) EXCEPT !.pc = "probe_read"])
    /\ Kept

\* 1758-1760 and 1699-1711: the answer, read from MAC data
init_probe_read(t) ==
    /\ At(t, "init", "probe_read")
    /\ \E fail \in FailChoices :
          \E device_type \in IF fail THEN UninitWords ELSE {dev.type} :
             /\ dev' = IF fail THEN dev ELSE [dev EXCEPT !.key = "none"]
             /\ faults' = IF fail THEN faults - 1 ELSE faults
             /\ Transact(t, [op |-> "mac_data",
                             val |-> LittleEndian16(device_type), n |-> 2,
                             ok |-> ~fail, d |-> Len(stack[t])])
             /\ IF I2cResult(fail) < 0
                   \/ device_type # BQ35100_DEVICE_TYPE_ID
                THEN Return(t, -ENODEV, <<>>)
                ELSE Goto(t, [Top(t) EXCEPT !.pc = "mode"])
    /\ Kept

\* 1766-1768 and 1026-1060: the cache is loaded from CONTROL_STATUS
init_get_security_mode(t) ==
    /\ At(t, "init", "mode")
    /\ \E o \in StatusOutcomes :
          LET f == Top(t)
              m == bq35100_get_security_mode(o)
          IN  /\ BusReadStatus(t, o)
              /\ IF m < 0
                 THEN /\ Return(t, -EIO, <<>>)
                      /\ UNCHANGED security_mode
                 ELSE /\ security_mode' = m
                      /\ \E u \in UninitBytes :
                            CallFn(t, [f EXCEPT !.pc = "gauge_mode_ret"],
                                   SgmFrame(f.cfg.gauge_mode, u))
    /\ UNCHANGED <<gauge_mode, gauge_enabled, clobbered, quota,
                 ltc4150_data>>

\* 1796-1800
init_gauge_mode_ret(t) ==
    /\ At(t, "init", "gauge_mode_ret")
    /\ IF ret[t].v # 0
       THEN Return(t, EIO, <<>>)
       ELSE \E u \in UninitBytes :
               CallFn(t, [Top(t) EXCEPT !.pc = "temp_ret"],
                      UitFrame(Top(t).cfg.temp_sensor_src, u))
    /\ NoBus
    /\ Kept

\* 1169
use_int_temp_entry(t) ==
    /\ At(t, "use_int_temp", "entry")
    /\ LET f == Top(t)
       IN  CallFn(t, [f EXCEPT !.pc = "read_ret"],
                  RedFrame(BQ35100_FLASH_OPERATION_CFG_A, f.buf, 1))
    /\ NoBus
    /\ Kept

\* 1170-1184, and 1190-1193 when the source is already the one asked for
use_int_temp_read_ret(t) ==
    /\ At(t, "use_int_temp", "read_ret")
    /\ LET f == Top(t)
           b == ret[t].buf[1]
       IN  IF ret[t].v < 0
           THEN Return(t, -EIO, <<>>)
           ELSE IF SourceDiffers(b, f.enable)
           THEN CallFn(t, [f EXCEPT !.pc = "write_ret"],
                       WedFrame(BQ35100_FLASH_OPERATION_CFG_A,
                                <<WithSource(b, f.enable)>>))
           ELSE Return(t, 0, <<>>)
    /\ NoBus
    /\ Kept

\* 1184-1193
use_int_temp_write_ret(t) ==
    /\ At(t, "use_int_temp", "write_ret")
    /\ IF ret[t].v < 0 THEN Return(t, -EIO, <<>>) ELSE Return(t, 0, <<>>)
    /\ NoBus
    /\ Kept

\* 1800-1804
init_temp_ret(t) ==
    /\ At(t, "init", "temp_ret")
    /\ IF ret[t].v < 0
       THEN Return(t, -EIO, <<>>)
       ELSE CallFn(t, [Top(t) EXCEPT !.pc = "capacity_ret"],
                   CapFrame("set_design_capacity",
                            Top(t).cfg.design_capacity))
    /\ NoBus
    /\ Kept

\* 1804-1808
init_capacity_ret(t) ==
    /\ At(t, "init", "capacity_ret")
    /\ IF ret[t].v < 0
       THEN Return(t, -EIO, <<>>)
       ELSE CallFn(t, [Top(t) EXCEPT !.pc = "seal_ret"],
                   SsmFrame(BQ35100_SECURITY_SEALED))
    /\ NoBus
    /\ Kept

\* 1808-1812
init_seal_ret(t) ==
    /\ At(t, "init", "seal_ret")
    /\ IF SealFailed(ret[t].v)
       THEN Return(t, EIO, <<>>)
       ELSE CallFn(t, [Top(t) EXCEPT !.pc = "start_ret"],
                   GaugeFrame("gauge_start"))
    /\ NoBus
    /\ Kept

\* 1812-1836
init_start_ret(t) ==
    /\ At(t, "init", "start_ret")
    /\ IF ret[t].v < 0 THEN Return(t, -EIO, <<>>) ELSE Return(t, 0, <<>>)
    /\ NoBus
    /\ Kept

call_init(t) ==
    \E cfg \in TestConfigs :
        /\ dev.wired = cfg.wired
        /\ Invoke(t, "init", InitFrame(cfg))

\* The zero-initialised handle and the chip at power-up: in any security
\* mode, obeying the seal subcommand or not, of the expected type or not
InitBoot ==
    /\ \E m \in SecurityModes \ {BQ35100_SECURITY_UNKNOWN}, k \in BOOLEAN,
          b \in {1, 130}, w \in BOOLEAN,
          ty \in {BQ35100_DEVICE_TYPE_ID, 0} :
          dev = Extend([DevInit(m, k) EXCEPT
                           !.mem[BQ35100_FLASH_OPERATION_CFG_A] = <<b>>],
                       [gepin |-> FALSE, wired |-> w, type |-> ty])
    /\ security_mode = BQ35100_SECURITY_UNKNOWN
    /\ gauge_mode = 0
    /\ gauge_enabled = FALSE
    /\ faults = MaxFaults
    /\ stack = [t \in {1} |-> <<>>]
    /\ ret = [t \in {1} |-> [v |-> 0, buf |-> <<>>]]
    /\ call = [t \in {1} |-> Idle]
    /\ log = [t \in {1} |-> <<>>]
    /\ quota = [t \in {1} |-> 1]
    /\ mid = [t \in {1} |-> "none"]
    /\ interleaved = FALSE
    /\ clobbered = FALSE
    /\ ltc4150_data = NoCounter

\* The block functions run here with the mode that line 1766 has just read
\* from the chip: a read that finds it sealed gives up at line 441, so no
\* write starts sealed and no call reaches the step that restores the mode.
NextBoot ==
    \/ \E t \in Threads : call_init(t)
    \/ \E t \in Threads : init_entry(t)
    \/ \E t \in Threads : init_probe(t)
    \/ \E t \in Threads : init_probe_read(t)
    \/ \E t \in Threads : init_get_security_mode(t)
    \/ \E t \in Threads : init_gauge_mode_ret(t)
    \/ \E t \in Threads : init_temp_ret(t)
    \/ \E t \in Threads : init_capacity_ret(t)
    \/ \E t \in Threads : init_seal_ret(t)
    \/ \E t \in Threads : init_start_ret(t)
    \/ \E t \in Threads : use_int_temp_entry(t)
    \/ \E t \in Threads : use_int_temp_read_ret(t)
    \/ \E t \in Threads : use_int_temp_write_ret(t)
    \/ \E t \in Threads : set_gauge_mode_entry(t)
    \/ \E t \in Threads : set_gauge_mode_read_ret(t)
    \/ \E t \in Threads : set_gauge_mode_write_ret(t)
    \/ \E t \in Threads : set_design_capacity_entry(t)
    \/ \E t \in Threads : set_design_capacity_write_ret(t)
    \/ \E t \in Threads : gauge_start_entry(t)
    \/ \E t \in Threads : gauge_start_wait_ret(t)
    \/ \E t \in Threads : wait_for_status_read(t)
    \/ DeviceSettles
    \/ \E t \in Threads : set_security_mode_entry(t)
    \/ \E t \in Threads : set_security_mode_loop(t)
    \/ \E t \in Threads : set_security_mode_code1(t)
    \/ \E t \in Threads : set_security_mode_code2(t)
    \/ \E t \in Threads : set_security_mode_seal(t)
    \/ \E t \in Threads : set_security_mode_readback(t)
    \/ \E t \in Threads : read_extended_data_entry(t)
    \/ \E t \in Threads : read_extended_data_unseal_ret(t)
    \/ \E t \in Threads : read_extended_data_open(t)
    \/ \E t \in Threads : read_extended_data_burst(t)
    \/ \E t \in Threads : write_extended_data_entry(t)
    \/ \E t \in Threads : write_extended_data_open(t)
    \/ \E t \in Threads : write_extended_data_frame(t)
    \/ \E t \in Threads : write_extended_data_sum(t)
    \/ \E t \in Threads : write_extended_data_len(t)
    \/ \E t \in Threads : write_extended_data_status(t)

SpecBoot == InitBoot /\ [][NextBoot]_vars

-----------------------------------------------------------------------------
(* bq35100_channel_get, ltc4150.c:1632-1674, and the calls of the driver   *)
(* taken together on one handle                                            *)

\* C division and remainder of ints: towards zero
Quot(a, b) == IF a >= 0 THEN a \div b ELSE -((-a) \div b)

Rem(a, b) == a - b * Quot(a, b)

\* the channels of the switch, named after the field each one reports, and
\* one the switch does not know
TestChannels ==
    {"temperature", "internal_temperature", "design_capacity", "voltage",
     "avg_current", "state_of_health", "acc_capacity", "other"}

\* 1640-1667: <<val1, val2>> for the fetched value x of the field
ChannelValue(chan, x) ==
    CASE chan \in {"temperature", "internal_temperature"} ->
            << Quot(U16(x) - 2731, 10), (U16(x - 2731) % 10) * 100000 >>
      [] chan = "voltage" ->
            << U16(x) \div 1000, (U16(x) % 1000) * 1000 >>
      [] chan \in {"design_capacity", "avg_current"} -> << Int16(x), 0 >>
      [] chan = "state_of_health" -> << x % 256, 0 >>
      [] chan = "acc_capacity" ->
            \* (uint32_t)(ULONG_MAX - x + 1) is 2^32 - x for x > 0, and
            \* 2^32 = 4294967 * 1000 + 296
            IF x = 0 THEN << 0, 0 >>
            ELSE << 4294967 + ((296 - x) \div 1000),
                    ((296 - x) % 1000) * 1000 >>
      [] OTHER -> << >>

ChanFrame(chan, x) ==
    Extend(Frame("channel_get", 0, 0, <<>>, 0, <<>>), [chan |-> chan, x |-> x])

\* 1632-1674: nothing but reads of the fetched values
channel_get_entry(t) ==
    /\ At(t, "channel_get", "entry")
    /\ LET f == Top(t)
       IN  IF f.chan = "other"
           THEN Return(t, -ENOTSUP, <<>>)
           ELSE Return(t, 0, ChannelValue(f.chan, f.x))
    /\ NoBus
    /\ Kept

call_channel_get(t) ==
    \E chan \in TestChannels, x \in TestReadings :
        Invoke(t, "channel_get", ChanFrame(chan, x))

call_enter_cal_mode(t) ==
    \E enable \in BOOLEAN :
        Invoke(t, "enter_cal_mode", EcmFrame(enable))

\* The handle and the chip some time after bq35100_init: the cached mode
\* that of the chip or an older one, the gauge on or off
InitHandle ==
    /\ \E m \in SecurityModes \ {BQ35100_SECURITY_UNKNOWN}, k \in BOOLEAN,
          g \in BOOLEAN :
          dev = Extend([DevInit(m, k) EXCEPT !.ga = g],
                       [gepin |-> TRUE, wired |-> TRUE,
                        type |-> BQ35100_DEVICE_TYPE_ID])
    /\ security_mode \in {dev.mode, BQ35100_SECURITY_SEALED}
    /\ gauge_mode = 0
    /\ gauge_enabled \in BOOLEAN
    /\ faults = MaxFaults
    /\ stack = [t \in {1} |-> <<>>]
    /\ ret = [t \in {1} |-> [v |-> 0, buf |-> <<>>]]
    /\ call = [t \in {1} |-> Idle]
    /\ log = [t \in {1} |-> <<>>]
    /\ quota = [t \in {1} |-> 1]
    /\ mid = [t \in {1} |-> "none"]
    /\ interleaved = FALSE
    /\ clobbered = FALSE
    /\ ltc4150_data = NoCounter

NextHandle ==
    \/ \E t \in Threads : call_set_security_mode(t)
    \/ \E t \in Threads : call_read_extended_data(t)
    \/ \E t \in Threads : call_write_extended_data(t)
    \/ \E t \in Threads : call_gauge_start(t)
    \/ \E t \in Threads : call_gauge_stop(t)
    \/ \E t \in Threads : call_set_gauge_mode(t)
    \/ \E t \in Threads : call_new_battery(t)
    \/ \E t \in Threads : call_sample_fetch(t)
    \/ \E t \in Threads : call_channel_get(t)
    \/ \E t \in Threads : call_wait_for_status(t)
    \/ \E t \in Threads : call_enter_cal_mode(t)
    \/ \E t \in Threads : channel_get_entry(t)
    \/ \E t \in Threads : enter_cal_mode_entry(t)
    \/ \E t \in Threads : enter_cal_mode_wait_ret(t)
    \/ \E t \in Threads : sample_fetch_entry(t)
    \/ \E t \in Threads : sample_fetch_data_ret(t)
    \/ \E t \in Threads : get_sensor_data_step(t)
    \/ \E t \in Threads : new_battery_entry(t)
    \/ \E t \in Threads : new_battery_capacity_ret(t)
    \/ \E t \in Threads : new_battery_subcommand(t)
    \/ \E t \in Threads : gauge_stop_entry(t)
    \/ \E t \in Threads : gauge_stop_wait_ret(t)
    \/ \E t \in Threads : set_security_mode_prereq_ret(t)
    \/ \E t \in Threads : set_security_mode_read_codes(t)
    \/ \E t \in Threads : set_security_mode_read_codes_ret(t)
    \/ \E t \in Threads : read_extended_data_restore_ret(t)
    \/ \E t \in Threads : write_extended_data_unseal_ret(t)
    \/ \E t \in Threads : write_extended_data_restore_ret(t)
    \/ NextBoot

SpecHandle == InitHandle /\ [][NextHandle]_vars

-----------------------------------------------------------------------------
(* bq35100_float_to_DF, ltc4150.c:1439-1491                                *)

RECURSIVE Pow2(_)
Pow2(n) == IF n = 0 THEN 1 ELSE 2 * Pow2(n - 1)

RECURSIVE BitLength(_)
BitLength(m) == IF m = 0 THEN 0 ELSE 1 + BitLength(m \div 2)

\* A float: s * m * 2^e with m below 2^24, an infinity of sign s, or a NaN
Finite(s, m, e) == [kind |-> "finite", s |-> s, m |-> m, e |-> e]

Infinite(s) == [kind |-> "inf", s |-> s, m |-> 0, e |-> 0]

NotANumber == [kind |-> "nan", s |-> 1, m |-> 0, e |-> 0]

\* val < 0.0
IsNegative(val) ==
    /\ val.s < 0
    /\ val.kind = "inf" \/ (val.kind = "finite" /\ val.m # 0)

\* tmp_val < 0.5 and tmp_val >= 1.0, for tmp_val = m * 2^e, m > 0
BelowHalf(m, e) == e + BitLength(m) <= -1

AtLeastOne(m, e) == e + BitLength(m) >= 1

\* 1453-1465. Line 1451 before them multiplies tmp_val by 1 + 2^-25 in
\* double and stores the product in the float: the product is less than
\* half a unit in the last place above the old value, which is what is
\* stored. A value in [2^(p-1), 2^p) is doubled -p times by the first loop
\* or halved p times by the second, and each turn of either is an exp--.
CountExponent(m, e, exp) ==
    LET turns == IF BelowHalf(m, e) THEN -(e + BitLength(m))
                 ELSE IF AtLeastOne(m, e) THEN e + BitLength(m)
                 ELSE 0
    IN  exp - turns

\* 1453, 1460: the loops that no value leaves: zero is never 0.5, and an
\* infinity is never below 1.0
NeverNormalised(val) ==
    \/ val.kind = "inf"
    \/ val.kind = "finite" /\ val.m = 0

\* 1467-1472
ClampExponent(exp) ==
    IF exp > 127 THEN 127 ELSE IF exp < -128 THEN -128 ELSE exp

\* 1474: tmp_val = pow(2, 8 - exp) * val - 128, in units of 2^-16; big
\* when it is beyond 2^14 either way
ScaledMantissa(val, exp) ==
    LET sh == val.e + 8 - exp + 16
    IN  IF sh + BitLength(val.m) > 30
        THEN [big |-> TRUE, n |-> 0]
        ELSE [big |-> FALSE,
              n |-> val.s * (IF sh >= 0 THEN val.m * Pow2(sh)
                             ELSE val.m \div Pow2(-sh)) - 128 * 65536]

\* (uint8_t)tmp_val: the integer part when it is one of 0..255; undefined
\* otherwise, where the builds saturate or keep the low byte of a wider
\* conversion
ConvertedByte(x) ==
    IF x.big THEN {0, 255}
    ELSE IF x.n > -65536 /\ x.n < 256 * 65536
    THEN {(IF x.n >= 0 THEN x.n \div 65536 ELSE 0)}
    ELSE {0, 255, (IF x.n >= 0 THEN x.n \div 65536
                   ELSE -((-x.n) \div 65536)) % 256}

\* 1477, 1479: tmp_val = pow(2, 8) * (tmp_val - data[...])
NextMantissa(x, d) ==
    LET r == x.n - d * 65536
    IN  IF x.big \/ r >= 4194304 \/ r <= -4194304
        THEN [big |-> TRUE, n |-> 0]
        ELSE [big |-> FALSE, n |-> 256 * r]

\* data[2] |= 0x80   (1482-1484)
WithSign(d, negative) == IF negative THEN (d % 128) + 128 ELSE d

\* 1439-1491: the encodings <<data[0], data[1], data[2], data[3]>> the
\* function can store for a value that leaves its loops
bq35100_float_to_DF(val) ==
    LET exp == IF val.kind = "nan" THEN 0
               ELSE ClampExponent(CountExponent(val.m, val.e, 0))
        x2  == IF val.kind = "nan" THEN [big |-> TRUE, n |-> 0]
               ELSE ScaledMantissa(val, exp)
    IN  UNION { UNION { { << d0, d1, WithSign(d2, IsNegative(val)),
                            (exp + 128) % 256 >> :
                             d0 \in ConvertedByte(NextMantissa(
                                        NextMantissa(x2, d2), d1)) } :
                         d1 \in ConvertedByte(NextMantissa(x2, d2)) } :
                d2 \in ConvertedByte(x2) }

\* powers of two from the smallest float up, and values whose mantissa
\* has more than one bit, of both signs; zero, the infinities and a NaN
TestFloats ==
    { Finite(s, m, e) :
        s \in {1, -1}, m \in {1, 3, 5},
        e \in {-149, -148, -131, -130, -129, -128} \cup (-4..4)
              \cup {100, 125} }
    \cup {Finite(1, 0, 0), Infinite(1), Infinite(-1), NotANumber}

DfFrame(val) ==
    Extend(Frame("float_to_DF", 0, 0, <<>>, 0, <<>>), [val |-> val])

\* the whole function; a value that no loop lets go keeps the thread
float_to_DF_entry(t) ==
    /\ At(t, "float_to_DF", "entry")
    /\ LET f == Top(t)
       IN  IF NeverNormalised(f.val)
           THEN Goto(t, [f EXCEPT !.pc = "normalise"])
           ELSE \E data \in bq35100_float_to_DF(f.val) :
                   Return(t, 0, data)
    /\ NoBus
    /\ Kept

call_float_to_DF(t) ==
    \E val \in TestFloats : Invoke(t, "float_to_DF", DfFrame(val))

InitFloat == InitWith({1}, 0, 1)

NextFloat ==
    \/ \E t \in Threads : call_float_to_DF(t)
    \/ \E t \in Threads : float_to_DF_entry(t)

SpecFloat == InitFloat /\ [][NextFloat]_vars

-----------------------------------------------------------------------------
(* bq35100_cal_current, ltc4150.c:1326-1382, with the float arithmetic of *)
(* lines 1353 and 1360                                                     *)

\* long division, one bit of the quotient a turn, until it has the 24 bits
\* of a float: m the bits so far, r the remainder, e the weight of the last
RECURSIVE QuotientBits(_, _, _, _)
QuotientBits(m, r, d, e) ==
    IF BitLength(m) >= 24 THEN [m |-> m, r |-> r, e |-> e]
    ELSE LET b == IF 2 * r >= d THEN 1 ELSE 0
         IN  QuotientBits(2 * m + b, 2 * r - b * d, d, e - 1)

\* round to nearest, ties to even
RoundedFloat(s, m, e, up) ==
    IF ~up THEN Finite(s, m, e)
    ELSE IF m + 1 = 16777216 THEN Finite(s, 8388608, e + 1)
    ELSE Finite(s, m + 1, e)

\* (float)n / d for a uint16_t n and an int d, which the division converts
\* to float: correctly rounded; x / 0 is an infinity, 0 / 0 a NaN
DivideFloat(n, d) ==
    IF d = 0 THEN (IF n = 0 THEN NotANumber ELSE Infinite(1))
    ELSE IF n = 0 THEN Finite(IF d < 0 THEN -1 ELSE 1, 0, 0)
    ELSE LET a == IF d < 0 THEN -d ELSE d
             q == QuotientBits(n \div a, n % a, a, 0)
         IN  RoundedFloat(IF d < 0 THEN -1 ELSE 1, q.m, q.e,
                          \/ 2 * q.r > a
                          \/ 2 * q.r = a /\ q.m % 2 = 1)

\* val * c for an integer c below 2^21, which the product converts to
\* float: the exact product, formed in pieces of 12 bits as hi * 2^24 + lo,
\* correctly rounded
MultiplyFloat(val, c) ==
    IF val.kind # "finite" \/ val.m = 0 THEN val
    ELSE LET mh   == val.m \div 4096
             ml   == val.m % 4096
             ch   == c \div 4096
             cl   == c % 4096
             cross == mh * cl + ml * ch
             rest == (cross % 4096) * 4096 + ml * cl
             hi   == mh * ch + cross \div 4096 + rest \div 16777216
             lo   == rest % 16777216
             L    == BitLength(hi)
         IN  IF hi = 0 THEN Finite(val.s, lo, val.e)
             ELSE LET m   == hi * Pow2(24 - L) + lo \div Pow2(L)
                      rem == lo % Pow2(L)
                  IN  RoundedFloat(val.s, m, val.e + L,
                                   \/ 2 * rem > Pow2(L)
                                   \/ 2 * rem = Pow2(L) /\ m % 2 = 1)

Int8(v) == IF v % 256 >= 128 THEN (v % 256) - 256 ELSE v % 256

\* cc_offset = (buf[0] << 0) | buf[1]   (line 1337)
CcOffset(buf) == buf[1] + buf[2] - BitAnd(buf[1], buf[2])

\* line 1353
cc_gain(current, avg_current, cc_offset, board_offset) ==
    DivideFloat(current, avg_current - Quot(cc_offset + board_offset, 16))

\* line 1360
cc_delta(gain) == MultiplyFloat(gain, 1193046)

TestCurrents == {0, 13, 1000}

CurFrame(current) ==
    Extend(Frame("cal_current", current, 0, <<>>, 0, <<0, 0, 0, 0>>),
           [cc_offset |-> 0, board_offset |-> 0, gain |-> NotANumber])

\* 1333
cal_current_entry(t) ==
    /\ At(t, "cal_current", "entry")
    /\ LET f == Top(t)
       IN  CallFn(t, [f EXCEPT !.pc = "offset_ret"],
                  RedFrame(BQ35100_FLASH_CC_OFFSET, f.buf, 2))
    /\ NoBus
    /\ Kept

\* 1333-1339
cal_current_offset_ret(t) ==
    /\ At(t, "cal_current", "offset_ret")
    /\ LET f == Top(t)
           b == ret[t].buf
       IN  IF ret[t].v < 0
           THEN Return(t, -EIO, <<>>)
           ELSE CallFn(t, [f EXCEPT !.pc = "board_ret", !.buf = b,
                                    !.cc_offset = CcOffset(b)],
                       RedFrame(BQ35100_FLASH_BOARD_OFFSET, b, 1))
    /\ NoBus
    /\ Kept

\* 1339-1348
cal_current_board_ret(t) ==
    /\ At(t, "cal_current", "board_ret")
    /\ LET f == Top(t)
           b == ret[t].buf
       IN  IF ret[t].v < 0
           THEN Return(t, -EIO, <<>>)
           ELSE \E hi \in UninitWords :
                   CallFn(t, [f EXCEPT !.pc = "raw_ret", !.buf = b,
                                       !.board_offset = Int8(b[1])],
                          RawFrame(BQ35100_CMD_CAL_CURRENT, hi))
    /\ NoBus
    /\ Kept

\* 1348-1367: the gain, and the first two bytes of its encoding written;
\* a gain that float_to_DF never normalises keeps the thread there
cal_current_raw_ret(t) ==
    /\ At(t, "cal_current", "raw_ret")
    /\ LET f    == Top(t)
           gain == cc_gain(f.target, ret[t].buf[1], f.cc_offset,
                           f.board_offset)
       IN  IF ret[t].v < 0
           THEN Return(t, -EIO, <<>>)
           ELSE IF NeverNormalised(gain)
           THEN Goto(t, [f EXCEPT !.pc = "normalise", !.gain = gain])
           ELSE \E data \in bq35100_float_to_DF(gain) :
                   CallFn(t, [f EXCEPT !.pc = "gain_ret", !.gain = gain,
                                       !.buf = data],
                          WedFrame(BQ35100_FLASH_CC_GAIN,
                                   SubSeq(data, 1, 2)))
    /\ NoBus
    /\ Kept

\* 1367-1374: the delta, and the first two bytes of its encoding written
cal_current_gain_ret(t) ==
    /\ At(t, "cal_current", "gain_ret")
    /\ LET f     == Top(t)
           delta == cc_delta(f.gain)
       IN  IF ret[t].v < 0
           THEN Return(t, -EIO, <<>>)
           ELSE IF NeverNormalised(delta)
           THEN Goto(t, [f EXCEPT !.pc = "normalise"])
           ELSE \E data \in bq35100_float_to_DF(delta) :
                   CallFn(t, [f EXCEPT !.pc = "delta_ret", !.buf = data],
                          WedFrame(BQ35100_FLASH_CC_DELTA,
                                   SubSeq(data, 1, 2)))
    /\ NoBus
    /\ Kept

\* 1374-1379
cal_current_delta_ret(t) ==
    /\ At(t, "cal_current", "delta_ret")
    /\ IF ret[t].v < 0 THEN Return(t, -EIO, <<>>) ELSE Return(t, 0, <<>>)
    /\ NoBus
    /\ Kept

call_cal_current(t) ==
    \E current \in TestCurrents :
        Invoke(t, "cal_current", CurFrame(current))

\* One call; offsets of both signs in the flash
InitCurrent ==
    /\ \E h \in CalHandles, sc \in CalScripts, o \in {<<0, 0>>, <<1, 32>>},
          b \in {0, 240} :
          /\ dev = [DevInit(h[1], h[2]) EXCEPT
                       !.script = sc,
                       !.mem[BQ35100_FLASH_CC_OFFSET] = o,
                       !.mem[BQ35100_FLASH_BOARD_OFFSET] = <<b>>]
          /\ security_mode = h[3]
    /\ gauge_mode = 0
    /\ gauge_enabled = FALSE
    /\ faults = MaxFaults
    /\ stack = [t \in {1} |-> <<>>]
    /\ ret = [t \in {1} |-> [v |-> 0, buf |-> <<>>]]
    /\ call = [t \in {1} |-> Idle]
    /\ log = [t \in {1} |-> <<>>]
    /\ quota = [t \in {1} |-> 1]
    /\ mid = [t \in {1} |-> "none"]
    /\ interleaved = FALSE
    /\ clobbered = FALSE
    /\ ltc4150_data = NoCounter

\* A read that finds the cached mode sealed gives up at line 441 once the
\* unsealing has succeeded, and the function with it: the writes start
\* unsealed, and no call reaches the step that restores the mode.
NextCurrent ==
    \/ \E t \in Threads : call_cal_current(t)
    \/ \E t \in Threads : cal_current_entry(t)
    \/ \E t \in Threads : cal_current_offset_ret(t)
    \/ \E t \in Threads : cal_current_board_ret(t)
    \/ \E t \in Threads : cal_current_raw_ret(t)
    \/ \E t \in Threads : cal_current_gain_ret(t)
    \/ \E t \in Threads : cal_current_delta_ret(t)
    \/ NextAverage
    \/ \E t \in Threads : set_security_mode_entry(t)
    \/ \E t \in Threads : set_security_mode_loop(t)
    \/ \E t \in Threads : set_security_mode_code1(t)
    \/ \E t \in Threads : set_security_mode_code2(t)
    \/ \E t \in Threads : set_security_mode_seal(t)
    \/ \E t \in Threads : set_security_mode_readback(t)
    \/ \E t \in Threads : read_extended_data_entry(t)
    \/ \E t \in Threads : read_extended_data_unseal_ret(t)
    \/ \E t \in Threads : read_extended_data_open(t)
    \/ \E t \in Threads : read_extended_data_burst(t)
    \/ \E t \in Threads : write_extended_data_entry(t)
    \/ \E t \in Threads : write_extended_data_open(t)
    \/ \E t \in Threads : write_extended_data_frame(t)
    \/ \E t \in Threads : write_extended_data_sum(t)
    \/ \E t \in Threads : write_extended_data_len(t)
    \/ \E t \in Threads : write_extended_data_status(t)

SpecCurrent == InitCurrent /\ [][NextCurrent]_vars

-----------------------------------------------------------------------------
(* The LTC4150 coulomb counter's interrupt path, ltc4150_trigger.c:21-78 *)

\* interrupts the chip raises in one run
MaxInterrupts == 3

\* the two ways the driver is built: CONFIG_LTC4150_TRIGGER_OWN_THREAD and
\* CONFIG_LTC4150_TRIGGER_GLOBAL_THREAD (lines 54-58 and 61-78)
TriggerModes == {"own_thread", "global_thread"}

\* struct ltc4150_data after ltc4150_init_interrupt (lines 111-162): the
\* semaphore starts at 0 with limit UINT_MAX, the work item is idle, the
\* handler waits.  `interrupts`, `updates` and `notified` count the runs of
\* the gpio callback, the changes of charge_count and the calls of the
\* data-ready handler.
LtcData(trigger, clr, handler) ==
    [trigger      |-> trigger,
     clr          |-> clr,
     drdy_handler |-> handler,
     charge_count |-> 0,
     gpio_sem     |-> 0,
     work         |-> [queued |-> FALSE, running |-> FALSE],
     pc           |-> IF trigger = "own_thread" THEN "take" ELSE "idle",
     interrupts   |-> 0,
     updates      |-> 0,
     notified     |-> 0]

\* the chip's pins: INT, latched active until CLR is pulsed, and POL
LtcPins(pol) == [int |-> FALSE, pol |-> pol]

LtcRest ==
    UNCHANGED <<handle, faults, stack, ret, call, log, quota, mid,
                interleaved, clobbered>>

\* k_sem_give on a semaphore whose limit (UINT_MAX) is out of reach
k_sem_give(d) == [d EXCEPT !.gpio_sem = @ + 1]

\* k_work_submit: an item that is already queued stays queued once; an idle
\* or running item is put on the queue
k_work_submit(d) == [d EXCEPT !.work.queued = TRUE]

\* ltc4150_gpio_callback, lines 48-59; it runs in the interrupt, at the edge
\* of INT to active.  With the CLR pin wired to the driver INT stays latched
\* until the handler pulses CLR, so no second edge comes before that;
\* without it the chip clears INT by itself.
ltc4150_gpio_callback ==
    /\ ltc4150_data.interrupts < MaxInterrupts
    /\ ltc4150_data.clr => ~dev.int
    /\ dev' = [dev EXCEPT !.int = ltc4150_data.clr]
    /\ LET d == [ltc4150_data EXCEPT !.interrupts = @ + 1]
       IN  ltc4150_data' = IF d.trigger = "own_thread"
                            THEN k_sem_give(d)
                            ELSE k_work_submit(d)
    /\ LtcRest

\* ltc4150_thread, lines 62-68: k_sem_take(K_FOREVER), then the handler
ltc4150_thread ==
    /\ ltc4150_data.trigger = "own_thread"
    /\ ltc4150_data.pc = "take"
    /\ ltc4150_data.gpio_sem > 0
    /\ ltc4150_data' = [ltc4150_data EXCEPT !.gpio_sem = @ - 1,
                                            !.pc = "clear"]
    /\ UNCHANGED dev
    /\ LtcRest

\* ltc4150_work_cb, lines 71-77: the system work queue takes the item off
\* the queue and runs its handler
ltc4150_work_cb ==
    /\ ltc4150_data.trigger = "global_thread"
    /\ ltc4150_data.pc = "idle"
    /\ ltc4150_data.work.queued
    /\ ltc4150_data' =
         [ltc4150_data EXCEPT !.work = [queued |-> FALSE, running |-> TRUE],
                              !.pc = "clear"]
    /\ UNCHANGED dev
    /\ LtcRest

\* ltc4150_thread_cb, lines 26-31: the CLR pulse, where the pin is named
ltc4150_thread_cb_clear ==
    /\ ltc4150_data.pc = "clear"
    /\ dev' = IF ltc4150_data.clr THEN [dev EXCEPT !.int = FALSE] ELSE dev
    /\ ltc4150_data' = [ltc4150_data EXCEPT !.pc = "count"]
    /\ LtcRest

\* ltc4150_thread_cb, lines 33-39: one step up or down by the POL pin
ltc4150_thread_cb_count ==
    /\ ltc4150_data.pc = "count"
    /\ ltc4150_data' =
         [ltc4150_data EXCEPT
            !.charge_count = IF dev.pol THEN @ + 1 ELSE @ - 1,
            !.updates = @ + 1,
            !.pc = "notify"]
    /\ UNCHANGED dev
    /\ LtcRest

\* ltc4150_thread_cb, lines 41-45, and the return to the loop of line 64 or
\* to the work queue
ltc4150_thread_cb_notify ==
    /\ ltc4150_data.pc = "notify"
    /\ ltc4150_data' =
         [ltc4150_data EXCEPT
            !.notified = IF ltc4150_data.drdy_handler THEN @ + 1 ELSE @,
            !.work.running = FALSE,
            !.pc = IF ltc4150_data.trigger = "own_thread"
                   THEN "take" ELSE "idle"]
    /\ UNCHANGED dev
    /\ LtcRest

\* the battery goes from charging to draining or back
PolarityChanges ==
    /\ dev' = [dev EXCEPT !.pol = ~dev.pol]
    /\ UNCHANGED ltc4150_data
    /\ LtcRest

InitTrigger ==
    /\ \E trigger \in TriggerModes, clr \in BOOLEAN, handler \in BOOLEAN :
          ltc4150_data = LtcData(trigger, clr, handler)
    /\ \E pol \in BOOLEAN : dev = LtcPins(pol)
    /\ security_mode = BQ35100_SECURITY_UNKNOWN
    /\ gauge_mode = 0
    /\ gauge_enabled = FALSE
    /\ faults = 0
    /\ stack = [t \in {1} |-> <<>>]
    /\ ret = [t \in {1} |-> [v |-> 0, buf |-> <<>>]]
    /\ call = [t \in {1} |-> Idle]
    /\ log = [t \in {1} |-> <<>>]
    /\ quota = [t \in {1} |-> 0]
    /\ mid = [t \in {1} |-> "none"]
    /\ interleaved = FALSE
    /\ clobbered = FALSE

NextTrigger ==
    \/ ltc4150_gpio_callback
    \/ ltc4150_thread
    \/ ltc4150_work_cb
    \/ ltc4150_thread_cb_clear
    \/ ltc4150_thread_cb_count
    \/ ltc4150_thread_cb_notify
    \/ PolarityChanges

SpecTrigger == InitTrigger /\ [][NextTrigger]_vars

-----------------------------------------------------------------------------
(* Vocabulary of the properties *)

Returned(t, op) == call[t].st = "ret" /\ call[t].op = op

\* the transactions the called function issued itself, not its callees
Own(t) == SelectSeq(log[t], LAMBDA e : e.d = 1)

OwnOps(t) == [k \in 1..Len(Own(t)) |-> Own(t)[k].op]

NoBusError(t) == \A k \in 1..Len(log[t]) : log[t][k].ok

\* during the call the chip acted on every valid code and reported its
\* real state, and the bus carried every transfer
Honoured(t) == ~dev.deaf /\ faults = call[t].faults0

\* at entry the cached mode was the mode of the chip
Fresh(t) == call[t].entry = call[t].dm

\* the security mode a status transaction showed (none when it failed)
ShownMode(e) ==
    IF e.ok THEN (FromLittleEndian16(e.val) \div 8192) % 4 ELSE -1

ShownFlashFail(e) == FromLittleEndian16(e.val) >= 32768

SubcommandOf(e) == FromLittleEndian16(e.val)

\* the transaction e wrote the subcommand v to the control register
Subcommand(e, v) == e.op = "mac_control" /\ e.ok /\ SubcommandOf(e) = v

\* the read-backs of the mode the called function made itself
ReadBacks(t) == SelectSeq(Own(t), LAMBDA e : e.op = "status")

RECURSIVE Total(_)
Total(s) == IF s = <<>> THEN 0 ELSE Head(s) + Total(Tail(s))

-----------------------------------------------------------------------------
(* C1: read_block and write_block entered with the cached mode SEALED,     *)
(* UNSEALED or FULL_ACCESS return with the cached mode they were entered   *)
(* with, on the success path and on every error path.                      *)
C1_PreviousModeRestored ==
    \A t \in Threads :
        ( /\ call[t].st = "ret"
          /\ call[t].op \in {"read_extended_data", "write_extended_data"}
          /\ call[t].entry \in SecurityModes \ {BQ35100_SECURITY_UNKNOWN} )
        => security_mode = call[t].entry

(* C2: read_block of a valid address, entered SEALED on a chip that        *)
(* honours the unseal codes, unseals, writes the address as a subcommand,  *)
(* burst-reads the 36-byte block and returns the payload with success.     *)
C2_SealedReadSucceeds ==
    \A t \in Threads :
        ( /\ Returned(t, "read_extended_data")
          /\ call[t].entry = BQ35100_SECURITY_SEALED
          /\ Fresh(t)
          /\ AddressValid(call[t].address)
          /\ Honoured(t) )
        => /\ call[t].ret >= 0
           /\ OwnOps(t) = <<"mac_control", "mac_block">>
           /\ SubcommandOf(Own(t)[1]) = call[t].address

(* C3: write_block returns a value >= 0 only if in that call the frame of  *)
(* address and payload, the checksum and the length were written and the   *)
(* status was then read with the flash-fail bit clear, whatever the mode   *)
(* at entry.                                                               *)
C3_WriteSuccessMeansCommitted ==
    \A t \in Threads :
        ( /\ Returned(t, "write_extended_data")
          /\ call[t].ret >= 0 )
        => \E a, b, c, e \in 1..Len(Own(t)) :
              /\ a < b /\ b < c /\ c < e
              /\ Own(t)[a].op = "mac_frame" /\ Own(t)[a].ok
              /\ Own(t)[b].op = "mac_sum" /\ Own(t)[b].ok
              /\ Own(t)[c].op = "mac_len" /\ Own(t)[c].ok
              /\ Own(t)[e].op = "status" /\ Own(t)[e].ok
              /\ ~ShownFlashFail(Own(t)[e])

C5_CallsSerialized == ~interleaved /\ ~clobbered

(* C6: from SEALED, on a chip that honours valid codes,                    *)
(* set_security_mode(FULL_ACCESS) writes the two halves of the default     *)
(* unseal code, observes UNSEALED, writes the high and the low half of     *)
(* the full-access code read from the flash, and returns success with the  *)
(* mode FULL_ACCESS.                                                       *)
C6_SealedToFullAccess ==
    \A t \in Threads :
        ( /\ Returned(t, "set_security_mode")
          /\ call[t].target = BQ35100_SECURITY_FULL_ACCESS
          /\ call[t].entry = BQ35100_SECURITY_SEALED
          /\ Fresh(t)
          /\ Honoured(t) )
        => /\ call[t].ret = 0
           /\ security_mode = BQ35100_SECURITY_FULL_ACCESS
           /\ \E a, b, s, c, e \in 1..Len(log[t]) :
                 /\ a < b /\ b < s /\ s < c /\ c < e
                 /\ Subcommand(log[t][a], High16(BQ35100_DEFAULT_SEAL_CODES))
                 /\ Subcommand(log[t][b], U16(BQ35100_DEFAULT_SEAL_CODES))
                 /\ log[t][s].op = "status"
                 /\ ShownMode(log[t][s]) = BQ35100_SECURITY_UNSEALED
                 /\ Subcommand(log[t][c], DevKeyCode(dev)[1])
                 /\ Subcommand(log[t][e], DevKeyCode(dev)[2])

(* C7: from FULL_ACCESS, on a chip that honours valid codes,               *)
(* set_security_mode(UNSEALED) writes the seal subcommand, observes        *)
(* SEALED, writes the high and then the low half of the default unseal     *)
(* code, and returns success with the mode UNSEALED.                       *)
C7_FullAccessToUnsealed ==
    \A t \in Threads :
        ( /\ Returned(t, "set_security_mode")
          /\ call[t].target = BQ35100_SECURITY_UNSEALED
          /\ call[t].entry = BQ35100_SECURITY_FULL_ACCESS
          /\ Fresh(t)
          /\ Honoured(t) )
        => /\ call[t].ret = 0
           /\ security_mode = BQ35100_SECURITY_UNSEALED
           /\ \E a, s, b, c \in 1..Len(log[t]) :
                 /\ a < s /\ s < b /\ b < c
                 /\ Subcommand(log[t][a], BQ35100_CTRL_SEALED)
                 /\ log[t][s].op = "status"
                 /\ ShownMode(log[t][s]) = BQ35100_SECURITY_SEALED
                 /\ Subcommand(log[t][b], High16(BQ35100_DEFAULT_SEAL_CODES))
                 /\ Subcommand(log[t][c], U16(BQ35100_DEFAULT_SEAL_CODES))

(* C8: a set_security_mode call whose three attempts each read back a      *)
(* mode other than the requested one returns an error.                     *)
C8_ThreeMismatchesFail ==
    \A t \in Threads :
        ( /\ Returned(t, "set_security_mode")
          /\ Len(ReadBacks(t)) = 3
          /\ \A k \in 1..3 : ShownMode(ReadBacks(t)[k]) # call[t].target )
        => call[t].ret < 0

(* C9: whatever the chip reports, set_security_mode makes at most three    *)
(* attempts, makes none after a read-back that equals the requested mode,  *)
(* and always returns: a call that has not returned can take a step.       *)
C9_AttemptsBoundedAndReturns ==
    \A t \in Threads :
        call[t].op = "set_security_mode"
        => /\ Len(ReadBacks(t)) <= 3
           /\ \A k \in 1..Len(Own(t)) :
                 ( Own(t)[k].op = "status"
                   /\ ShownMode(Own(t)[k]) = call[t].target )
                 => k = Len(Own(t))
           /\ (call[t].st = "run" => ENABLED Next)

(* C10: set_security_mode called with the mode the handle caches returns   *)
(* success with no bus transaction and leaves security_mode, gauge_mode    *)
(* and gauge_enabled as they were.                                         *)
C10_SameModeIsNoOp ==
    \A t \in Threads :
        ( /\ Returned(t, "set_security_mode")
          /\ call[t].target = call[t].entry )
        => /\ call[t].ret = 0
           /\ log[t] = <<>>
           /\ security_mode = call[t].entry
           /\ gauge_mode = call[t].gm
           /\ gauge_enabled = call[t].ge

(* C10, the case: a set_security_mode call for the cached mode, a mode     *)
(* other than UNKNOWN, has returned.                                       *)
C10_Witness ==
    \E t \in Threads :
        /\ Returned(t, "set_security_mode")
        /\ call[t].target = call[t].entry
        /\ call[t].entry # BQ35100_SECURITY_UNKNOWN

(* C11: set_security_mode called with the target UNKNOWN while the cached   *)
(* mode is not UNKNOWN returns an error, writes nothing to the bus and      *)
(* leaves the cached mode as it was.                                        *)
C11_UnknownTargetRejected ==
    \A t \in Threads :
        ( /\ Returned(t, "set_security_mode")
          /\ call[t].target = BQ35100_SECURITY_UNKNOWN
          /\ call[t].entry # BQ35100_SECURITY_UNKNOWN )
        => /\ call[t].ret < 0
           /\ log[t] = <<>>
           /\ security_mode = call[t].entry

\* the k-th transaction of the call read a status that matches the
\* (expected, mask) pair the call was given
ReadMatches(t, k) ==
    /\ log[t][k].ok
    /\ BitAnd(FromLittleEndian16(log[t][k].val), call[t].args.mask)
         = call[t].args.expected

(* C12: wait_for_status reads the status at most 5 times and reads no more  *)
(* after a read that matches (or fails); it returns success exactly when    *)
(* its last read matched, an error after exactly 5 reads when none of them  *)
(* matched, and it always returns.                                          *)
C12_WaitForStatusBounded ==
    \A t \in Threads :
        call[t].op = "wait_for_status"
        => LET n == Len(log[t])
           IN  /\ n <= 5
               /\ \A k \in 1..n : log[t][k].op = "status"
               /\ \A k \in 1..n :
                     (ReadMatches(t, k) \/ ~log[t][k].ok) => k = n
               /\ call[t].st = "run" => ENABLED wait_for_status_read(t)
               /\ call[t].st = "ret"
                  => /\ n >= 1
                     /\ (call[t].ret = 0) = ReadMatches(t, n)
                     /\ call[t].ret # 0 => call[t].ret < 0
                     /\ (call[t].ret < 0 /\ log[t][n].ok) => n = 5

(* C12, the case: a wait_for_status call has returned after five status     *)
(* reads that all reached the chip and none of which matched.               *)
C12_Witness ==
    \E t \in Threads :
        /\ Returned(t, "wait_for_status")
        /\ Len(log[t]) = 5
        /\ \A k \in 1..5 : log[t][k].ok /\ ~ReadMatches(t, k)

\* the arguments of the call are those the checks of lines 433 and 510
\* let through
ArgumentsValid(t) ==
    /\ call[t].address >= 16384
    /\ call[t].address <= 17407
    /\ call[t].op = "write_extended_data"
       => (call[t].length >= 1 /\ call[t].length <= 32)

(* C13: read_block and write_block return an error for every address below *)
(* 0x4000 or above 0x43FF, and write_block for every payload length outside *)
(* 1..32; a rejected call issues no bus transaction and leaves the cached   *)
(* mode unchanged.  The addresses 0x4000 and 0x43FF with a length in 1..32  *)
(* are not rejected: such a call, entered UNSEALED or FULL_ACCESS, goes on  *)
(* to write the address to the chip.                                        *)
C13_BoundsChecked ==
    \A t \in Threads :
        ( /\ call[t].op \in {"read_extended_data", "write_extended_data"}
          /\ call[t].st = "ret" )
        => /\ ~ArgumentsValid(t)
              => /\ call[t].ret < 0
                 /\ log[t] = <<>>
                 /\ security_mode = call[t].entry
           /\ ( /\ ArgumentsValid(t)
                /\ call[t].entry \in {BQ35100_SECURITY_UNSEALED,
                                      BQ35100_SECURITY_FULL_ACCESS} )
              => /\ log[t] # <<>>
                 /\ log[t][1].op = "mac_control"
                 /\ log[t][1].val = <<call[t].address % 256,
                                      call[t].address \div 256>>

(* C13, the case: a write_block call with an address in range and a        *)
(* payload of 33 bytes has returned, and so has a write of 32 bytes to     *)
(* 0x43FF before it.                                                       *)
C13_Witness ==
    \E t \in Threads :
        /\ Returned(t, "write_extended_data")
        /\ call[t].address = 16384
        /\ call[t].length = 33
        /\ dev.mem[17407] = Pattern(32)

\* the block e echoes the address of the call and carries the checksum of
\* its first L - 2 bytes, L its length byte
FrameValid(t, e) ==
    LET L == e.val[36]
    IN  /\ e.val[1] = call[t].address % 256
        /\ e.val[2] = call[t].address \div 256
        /\ L >= 2 /\ L <= 38
        /\ e.val[35] = 255 - (Total(SubSeq(e.val, 1, L - 2)) % 256)

\* the blocks the called function read itself
OwnBlocks(t) == SelectSeq(Own(t), LAMBDA e : e.op = "mac_block")

(* C14: read_block returns success, or changes the caller's buffer, only    *)
(* if the block it read echoes the requested address in bytes 0 and 1 and   *)
(* carries in byte 34 the checksum of its first length_field - 2 bytes; on  *)
(* a mismatch it returns an error, leaves the buffer as it was and reads    *)
(* no second block.                                                         *)
C14_ReadValidatesFrame ==
    \A t \in Threads :
        Returned(t, "read_extended_data")
        => LET b == OwnBlocks(t)
           IN  /\ Len(b) <= 1
               /\ (call[t].ret >= 0 \/ call[t].buf # call[t].args.buf)
                  => (Len(b) = 1 /\ b[1].ok /\ FrameValid(t, b[1]))
               /\ (Len(b) = 1 /\ b[1].ok /\ ~FrameValid(t, b[1]))
                  => (call[t].ret < 0 /\ call[t].buf = call[t].args.buf)

(* C14, the case: a read_block call has returned after reading a block     *)
(* that echoes the right address with a wrong checksum.                    *)
C14_Witness ==
    \E t \in Threads :
        /\ Returned(t, "read_extended_data")
        /\ Len(OwnBlocks(t)) = 1
        /\ OwnBlocks(t)[1].ok
        /\ OwnBlocks(t)[1].val[1] = call[t].address % 256
        /\ OwnBlocks(t)[1].val[2] = call[t].address \div 256
        /\ ~FrameValid(t, OwnBlocks(t)[1])

(* C15: for a block that passes validation with length byte L, read_block   *)
(* delivers exactly min(L - 4, max_length) bytes taken from offset 2 of     *)
(* the block when L is in 4..36, and for no L does it copy more bytes than  *)
(* L - 4 (none when L < 4).                                                 *)
C15_DeliversPayloadLength ==
    \A t \in Threads :
        ( /\ Returned(t, "read_extended_data")
          /\ call[t].ret >= 0
          /\ Len(OwnBlocks(t)) = 1 )
        => LET data == OwnBlocks(t)[1].val
               L    == data[36]
               max  == call[t].length
               n    == IF L - 4 < max THEN L - 4 ELSE max
           IN  /\ (L >= 4 /\ L <= 36)
                  => /\ \A k \in 1..n : call[t].buf[k] = data[2 + k]
                     /\ \A k \in (n + 1)..max :
                           call[t].buf[k] = call[t].args.buf[k]
               /\ \A k \in 1..max :
                     k > L - 4 => call[t].buf[k] = call[t].args.buf[k]

\* the call was made unsealed, with valid arguments, on a chip that is in
\* the cached mode and stores what it is sent
SoundBlockCall(t, op) ==
    /\ Returned(t, op)
    /\ ArgumentsValid(t)
    /\ call[t].entry \in {BQ35100_SECURITY_UNSEALED,
                          BQ35100_SECURITY_FULL_ACCESS}
    /\ Fresh(t)
    /\ ~dev.deaf

(* C16: with the mode UNSEALED or FULL_ACCESS, an address in range and a    *)
(* payload of 1..32 bytes, write_block succeeds and the simulated device    *)
(* holds the payload under the address; a following read_block of that      *)
(* address with max_length >= len succeeds and returns exactly the payload  *)
(* that was written.                                                        *)
C16_WriteReadRoundTrip ==
    \A t \in Threads :
        /\ SoundBlockCall(t, "write_extended_data")
           => /\ call[t].ret >= 0
              /\ dev.mem[call[t].address] = call[t].payload
        /\ ( /\ SoundBlockCall(t, "read_extended_data")
             /\ dev.mem[call[t].address] \in WidePayloads
             /\ call[t].length >= Len(dev.mem[call[t].address]) )
           => /\ call[t].ret >= 0
              /\ SubSeq(call[t].buf, 1, Len(dev.mem[call[t].address]))
                   = dev.mem[call[t].address]

(* C16, the case: a read_block of 0x43FF into 32 bytes has returned after   *)
(* a write_block stored a 32-byte payload there.                            *)
C16_Witness ==
    \E t \in Threads :
        /\ SoundBlockCall(t, "read_extended_data")
        /\ call[t].address = 17407
        /\ call[t].length = 32
        /\ dev.mem[17407] = Pattern(32)

(* C17: compute_checksum returns 0xFF - (sum of the bytes mod 256) for     *)
(* every byte sequence of length 0..36, bytes of 0x80 and more included,    *)
(* and changes no state: the handle, the chip and the bus are as they were  *)
(* when it was called.                                                      *)
C17_ChecksumIsComplementOfSum ==
    \A t \in Threads :
        Returned(t, "compute_checksum")
        => /\ Len(call[t].payload) \in 0..MaxChecksumLength
           /\ call[t].ret = 255 - (Total(call[t].payload) % 256)
           /\ call[t].ret = bq35100_compute_checksum(call[t].payload,
                                                     call[t].length)
           /\ security_mode = call[t].entry
           /\ gauge_mode = call[t].gm
           /\ gauge_enabled = call[t].ge
           /\ dev = DevInit(BQ35100_SECURITY_SEALED, FALSE)
           /\ log[t] = <<>>

(* C17, the case: the checksum of 36 bytes of 0xFF, whose sum 9180 wraps    *)
(* to 220, has been returned as 35.                                         *)
C17_Witness ==
    \E t \in Threads :
        /\ Returned(t, "compute_checksum")
        /\ call[t].payload = [k \in 1..36 |-> 255]
        /\ call[t].ret = 35

(* C18: if the bus transport fails on a subcommand write (the write to the  *)
(* MAC control register), the operation that issued it returns an error     *)
(* and does not continue as if the command had been issued: stated here     *)
(* for start and stop, a failed write of GAUGE_START or GAUGE_STOP is the    *)
(* last bus transaction of the call and the call returns a negative value.  *)
C18_SubcommandFailurePropagates ==
    \A t \in Threads :
        (Returned(t, "gauge_start") \/ Returned(t, "gauge_stop"))
        => \A k \in 1..Len(log[t]) :
              (log[t][k].op = "mac_control" /\ ~log[t][k].ok)
              => /\ call[t].ret < 0
                 /\ k = Len(log[t])

\* the call left the handle as it found it
HandleUnchanged(t) ==
    /\ security_mode = call[t].entry
    /\ gauge_mode = call[t].gm
    /\ gauge_enabled = call[t].ge

(* C19: start() called while gauge_enabled is true, and stop() called       *)
(* while gauge_enabled is false, return success with zero bus transactions  *)
(* and leave gauge_enabled, gauge_mode and security_mode unchanged.         *)
C19_RedundantStartStopIsNoOp ==
    \A t \in Threads :
        /\ (Returned(t, "gauge_start") /\ call[t].ge)
           => /\ call[t].ret = 0
              /\ log[t] = <<>>
              /\ HandleUnchanged(t)
        /\ (Returned(t, "gauge_stop") /\ ~call[t].ge)
           => /\ call[t].ret = 0
              /\ log[t] = <<>>
              /\ HandleUnchanged(t)
        /\ (call[t].op = "gauge_start" /\ call[t].ge) => log[t] = <<>>
        /\ (call[t].op = "gauge_stop" /\ ~call[t].ge) => log[t] = <<>>

(* C19, the case: a start() made with gauge_enabled true has returned       *)
(* while the chip itself is not gauging.                                    *)
C19_Witness ==
    \E t \in Threads :
        /\ Returned(t, "gauge_start")
        /\ call[t].ge
        /\ ~dev.ga

\* the status reads of the call, and whether read k reached the chip and
\* showed the gauge-active bit as `ga`
StatusReads(t) == SelectSeq(log[t], LAMBDA e : e.op = "status")

ShowedGa(e, ga) ==
    /\ e.ok
    /\ (BitAnd(FromLittleEndian16(e.val), BQ35100_GA_BIT_MASK)
          = BQ35100_GA_BIT_MASK) = ga

(* C20: after start() has issued GAUGE_START it returns success whether or  *)
(* not polling confirms, and gauge_enabled is true exactly when one of the  *)
(* at most 5 status reads showed the gauge-active bit set (false on         *)
(* timeout); after stop() has issued GAUGE_STOP it returns success and      *)
(* gauge_enabled is false exactly when one of the status reads showed the   *)
(* bit clear (it stays true on timeout).                                    *)
C20_EnabledFollowsPolling ==
    \A t \in Threads :
        /\ ( /\ Returned(t, "gauge_start")
             /\ log[t] # <<>>
             /\ Subcommand(log[t][1], BQ35100_CTRL_GAUGE_START) )
           => /\ call[t].ret = 0
              /\ Len(StatusReads(t)) <= 5
              /\ Len(log[t]) = 1 + Len(StatusReads(t))
              /\ gauge_enabled
                   = \E k \in 1..Len(StatusReads(t)) :
                        ShowedGa(StatusReads(t)[k], TRUE)
        /\ ( /\ Returned(t, "gauge_stop")
             /\ log[t] # <<>>
             /\ Subcommand(log[t][1], BQ35100_CTRL_GAUGE_STOP) )
           => /\ call[t].ret = 0
              /\ Len(StatusReads(t)) <= 5
              /\ Len(log[t]) = 1 + Len(StatusReads(t))
              /\ gauge_enabled
                   = ~ \E k \in 1..Len(StatusReads(t)) :
                          ShowedGa(StatusReads(t)[k], FALSE)

(* C20, the case: a start() has returned after GAUGE_START and five status  *)
(* reads that all reached the chip with the gauge-active bit clear.         *)
C20_Witness ==
    \E t \in Threads :
        /\ Returned(t, "gauge_start")
        /\ log[t] # <<>>
        /\ Subcommand(log[t][1], BQ35100_CTRL_GAUGE_START)
        /\ Len(StatusReads(t)) = 5
        /\ \A k \in 1..5 : ShowedGa(StatusReads(t)[k], FALSE)
        /\ ~gauge_enabled

\* the transactions set_gauge_mode's own read_block and write_block made
\* (not those of the mode changes inside them)
BlockOps(t, op) == SelectSeq(log[t], LAMBDA e : e.d = 2 /\ e.op = op)

\* the block e echoes `address` and carries the checksum of its content
BlockValid(e, address) ==
    LET L == e.val[36]
    IN  /\ e.ok
        /\ e.val[1] = address % 256
        /\ e.val[2] = address \div 256
        /\ L >= 2 /\ L <= 38
        /\ e.val[35] = 255 - (Total(SubSeq(e.val, 1, L - 2)) % 256)

\* a set_gauge_mode call, the first or the repeated one, for a real mode
SetsGaugeMode(t) ==
    /\ call[t].op \in {"set_gauge_mode", "set_gauge_mode_again"}
    /\ call[t].target \in {BQ35100_ACCUMULATOR_MODE, BQ35100_SOH_MODE,
                           BQ35100_EOS_MODE}

(* C21: set_gauge_mode(mode) with mode ACCUMULATOR, SOH or EOS reads the    *)
(* one-byte flag and, if its low 2 bits already equal mode, issues no       *)
(* write_block; otherwise it writes exactly (old_byte AND 0xFC) OR mode;    *)
(* a second call in a row with the same mode writes nothing, and after a    *)
(* successful call the cached gauge_mode equals mode.                       *)
C21_GaugeModeReadModifyWrite ==
    \A t \in Threads :
        SetsGaugeMode(t)
        => LET R == BlockOps(t, "mac_block")
               W == BlockOps(t, "mac_frame")
               old == R[1].val[3]
           IN  /\ Len(R) <= 1
               /\ Len(W) <= 1
               /\ W # <<>>
                  => /\ R # <<>>
                     /\ BlockValid(R[1], BQ35100_FLASH_OPERATION_CFG_A)
                     /\ ModeBits(old) # call[t].target
                     /\ W[1].val
                          = LittleEndian16(BQ35100_FLASH_OPERATION_CFG_A)
                            \o <<BitAnd(old, 252) + call[t].target>>
               /\ (call[t].st = "ret" /\ call[t].ret = 0)
                  => /\ gauge_mode = call[t].target
                     /\ R # <<>>
                     /\ W = <<>> <=> ModeBits(old) = call[t].target
               /\ call[t].op = "set_gauge_mode_again" => W = <<>>

\* the transactions of the call made at stack depth d
AtDepth(t, d) == SelectSeq(log[t], LAMBDA e : e.d = d)

\* position of the first transaction of the log that satisfies Test (0: none)
FirstWhere(s, Test(_)) ==
    IF \E k \in 1..Len(s) : Test(s[k])
    THEN CHOOSE k \in 1..Len(s) :
            Test(s[k]) /\ \A j \in 1..(k - 1) : ~Test(s[j])
    ELSE 0

IsNewBattery(e) ==
    e.op = "mac_control"
    /\ FromLittleEndian16(e.val) = BQ35100_CTRL_NEW_BATTERY
    /\ e.d = 1

\* the design-capacity write_block was carried through before position n:
\* frame, checksum and length written and the status read without
\* flash-fail
CapacityWritten(t, n) ==
    LET w == SelectSeq(SubSeq(log[t], 1, n - 1), LAMBDA e : e.d = 3)
    IN  /\ \E k \in 1..Len(w) :
              /\ w[k].op = "mac_frame" /\ w[k].ok
              /\ w[k].val
                   = LittleEndian16(BQ35100_FLASH_CELL_DESIGN_CAPACITY_MAH)
                     \o <<call[t].target \div 256, call[t].target % 256>>
        /\ \E k \in 1..Len(w) : w[k].op = "mac_sum" /\ w[k].ok
        /\ \E k \in 1..Len(w) : w[k].op = "mac_len" /\ w[k].ok
        /\ \E k \in 1..Len(w) :
              w[k].op = "status" /\ w[k].ok /\ ~ShownFlashFail(w[k])

(* C22: set_new_battery(capacity) with capacity != 0 completes the          *)
(* design-capacity write_block (payload = capacity as 2 bytes, high byte    *)
(* first) before it issues the NEW_BATTERY subcommand, and does not issue   *)
(* NEW_BATTERY if that write fails; with capacity == 0 it issues            *)
(* NEW_BATTERY and no extended-memory write.                                *)
C22_CapacityBeforeNewBattery ==
    \A t \in Threads :
        call[t].op = "new_battery"
        => LET n == FirstWhere(log[t], IsNewBattery)
           IN  /\ (call[t].target # 0 /\ n > 0) => CapacityWritten(t, n)
               /\ n > 0 => n = Len(log[t])
               /\ (call[t].target = 0 /\ call[t].st = "ret")
                  => n = 1

\* thread t is inside the function fn
Inside(t, fn) == \E k \in 1..Len(stack[t]) : stack[t][k].fn = fn

IsPin(e, level) == e.op = "ge_pin" /\ e.val = <<level>>

IsBus(e) == e.op # "ge_pin"

(* C23: the power hook orders its steps: resume from OFF drives the         *)
(* gauge-enable signal active before calling start(); turn-off calls        *)
(* stop() before driving the signal inactive; suspend returns Unsupported   *)
(* without any bus or pin activity; turn-off without a configured enable    *)
(* pin returns Unsupported without calling stop().                          *)
C23_PowerHookOrder ==
    \A t \in Threads :
        call[t].op = "device_pm_ctrl"
        => LET a == call[t].args.action
               s == call[t].args.curr_state
               n == Len(log[t])
               done == call[t].st = "ret"
           IN  /\ (a = "resume" /\ s = "off" /\ dev.wired)
                  => /\ (Inside(t, "gauge_start") \/ done)
                        => /\ n >= 1
                           /\ IsPin(log[t][1], TRUE)
                           /\ \A k \in 2..n : IsBus(log[t][k])
                     /\ (done /\ ~call[t].ge)
                        => /\ n >= 2
                           /\ log[t][2].op = "mac_control"
                           /\ FromLittleEndian16(log[t][2].val)
                                = BQ35100_CTRL_GAUGE_START
               /\ (a = "turn_off" /\ dev.wired)
                  => /\ Inside(t, "gauge_stop")
                        => \A k \in 1..n : IsBus(log[t][k])
                     /\ done
                        => /\ n >= 1
                           /\ IsPin(log[t][n], FALSE)
                           /\ \A k \in 1..(n - 1) : IsBus(log[t][k])
                           /\ call[t].ge
                              => /\ n >= 2
                                 /\ log[t][1].op = "mac_control"
                                 /\ FromLittleEndian16(log[t][1].val)
                                      = BQ35100_CTRL_GAUGE_STOP
               /\ a = "suspend"
                  => /\ log[t] = <<>>
                     /\ Len(stack[t]) <= 1
                     /\ done => call[t].ret = -ENOTSUP
               /\ (a = "turn_off" /\ ~dev.wired)
                  => /\ log[t] = <<>>
                     /\ ~Inside(t, "gauge_stop")
                     /\ done => call[t].ret = -ENOTSUP

\* positions in the log of the samples the call accumulated, and of the
\* reads of the sample counter
Accumulated(t) ==
    {k \in 1..Len(log[t]) : log[t][k].op = "cal_data" /\ log[t][k].ok}

CounterReads(t) ==
    {k \in 1..Len(log[t]) : log[t][k].op = "cal_count" /\ log[t][k].ok}

RegisterAt(t, k) == FromLittleEndian16(log[t][k].val)

\* the poll a sample belongs to, and the poll before that one (0: none)
PollOf(t, k) == CHOOSE j \in CounterReads(t) :
                   j < k /\ \A i \in CounterReads(t) : i < k => i <= j

PollBefore(t, j) ==
    IF \E i \in CounterReads(t) : i < j
    THEN CHOOSE i \in CounterReads(t) :
            i < j /\ \A h \in CounterReads(t) : h < j => h <= i
    ELSE 0

\* the sum of the samples read at the positions S, as int16_t values
RECURSIVE SignedSum(_, _)
SignedSum(t, S) ==
    IF S = {} THEN 0
    ELSE LET x == CHOOSE y \in S : TRUE
         IN  Int16(RegisterAt(t, x)) + SignedSum(t, S \ {x})

\* integer division that truncates toward zero
TruncDiv(a, b) == IF a >= 0 THEN a \div b ELSE -((-a) \div b)

(* C24: sample_average treats its first counter read only as the baseline   *)
(* and accumulates a sample only on a poll whose counter differs from that  *)
(* of the preceding poll, stopping after 4 such samples: for the counter    *)
(* sequence 5,5,6,6,7,8,8,9 with samples 10,10,12,12,14,16,16,18 it         *)
(* accumulates the samples at counters 6,7,8,9 and returns 15.              *)
C24_FirstReadIsBaseline ==
    \A t \in Threads :
        call[t].op = "get_raw_cal_data"
        => /\ \A k \in Accumulated(t) :
                 /\ PollBefore(t, PollOf(t, k)) > 0
                 /\ RegisterAt(t, PollBefore(t, PollOf(t, k)))
                      # RegisterAt(t, PollOf(t, k))
           /\ Cardinality(Accumulated(t)) <= 4
           /\ (call[t].st = "ret" /\ call[t].ret = 0)
              => Cardinality(Accumulated(t)) = 4
           /\ ( /\ call[t].st = "ret" /\ call[t].ret = 0
                /\ dev.script = Script(<<5, 5, 6, 6, 7, 8, 8, 9>>,
                                       <<10, 10, 12, 12, 14, 16, 16, 18>>) )
              => /\ {RegisterAt(t, PollOf(t, k)) : k \in Accumulated(t)}
                      = {6, 7, 8, 9}
                 /\ call[t].buf = <<15>>

(* C25: for every sequence of 16-bit counter values the device reports      *)
(* (values above 255 and a first value of 0 included), sample_average       *)
(* never accumulates a sample on a poll whose counter equals the counter    *)
(* of the previous poll, so the accumulated samples belong to distinct      *)
(* counter values.                                                          *)
C25_NoSampleOnUnchangedCounter ==
    \A t \in Threads :
        call[t].op = "get_raw_cal_data"
        => /\ \A k \in Accumulated(t) :
                 PollBefore(t, PollOf(t, k)) > 0
                 => RegisterAt(t, PollBefore(t, PollOf(t, k)))
                      # RegisterAt(t, PollOf(t, k))
           /\ \A k, j \in Accumulated(t) :
                 k # j => RegisterAt(t, PollOf(t, k))
                            # RegisterAt(t, PollOf(t, j))

(* C26: the value sample_average returns is the mean, truncated toward      *)
(* zero, of the 4 accumulated raw samples read as signed 16-bit values,     *)
(* for all sample values, negative ones and mixed signs included; it        *)
(* depends on nothing but those 4 register values.                          *)
C26_TruncatedSignedMean ==
    \A t \in Threads :
        (Returned(t, "get_raw_cal_data") /\ call[t].ret = 0)
        => call[t].buf = <<TruncDiv(SignedSum(t, Accumulated(t)), 4)>>

\* the calibration functions that write a one-byte offset
OffsetCalibrations == {"cal_voltage", "cal_temp"}

\* the two's-complement encoding of a value of -128..127 in one byte
TwosComplement(v) == IF v < 0 THEN v + 256 ELSE v

\* the extended-memory write, if any, that the call of t has in progress
WritesInProgress(t) ==
    {k \in 1..Len(stack[t]) : stack[t][k].fn = "write_extended_data"}

(* C27: calibrate_voltage and calibrate_temperature issue the offset        *)
(* write_block if and only if offset = known_value - avg_raw lies in        *)
(* -128..127, with a 1-byte payload that is the two's-complement encoding   *)
(* of the offset; for an offset outside that range they return an error     *)
(* and issue no extended-memory write. (avg_raw is the average the          *)
(* sampling produced.)                                                      *)
C27_OffsetWriteIffInRange ==
    [][ \A t \in Threads :
          ( /\ stack[t] # <<>>
            /\ Top(t).fn \in OffsetCalibrations
            /\ Top(t).pc = "raw_ret"
            /\ ret[t].v >= 0 )
          => LET offset == Top(t).target - ret[t].buf[1]
             IN  IF offset \in -128..127
                 THEN /\ Len(stack'[t]) = 2
                      /\ stack'[t][2].fn = "write_extended_data"
                      /\ stack'[t][2].pc = "entry"
                      /\ stack'[t][2].payload = <<TwosComplement(offset)>>
                      /\ stack'[t][2].length = 1
                 ELSE /\ stack'[t] = <<>>
                      /\ call'[t].st = "ret"
                      /\ call'[t].ret < 0
                      /\ \A k \in 1..Len(log'[t]) :
                            log'[t][k].op \notin {"mac_frame", "mac_sum",
                                                  "mac_len"}
    ]_vars

\* a voltage calibration has issued the write of a negative offset
C27_Witness ==
    \E t \in Threads :
        /\ call[t].op = "cal_voltage"
        /\ Len(stack[t]) = 2
        /\ stack[t][1].averaged
        /\ stack[t][1].target - stack[t][1].avg \in -128..-1
        /\ stack[t][2].fn = "write_extended_data"
        /\ stack[t][2].payload
             = <<TwosComplement(stack[t][1].target - stack[t][1].avg)>>

\* the reads of the averaging that failed on the bus
FailedSampling(t) ==
    {k \in 1..Len(log[t]) :
        log[t][k].op \in {"cal_count", "cal_data"} /\ ~log[t][k].ok}

(* C28: if raw-sample averaging fails inside calibrate_voltage (a bus       *)
(* error while reading the sample counter or the sample),                   *)
(* calibrate_voltage returns an error immediately and issues no             *)
(* extended-memory write.                                                   *)
C28_AveragingFailureStopsCalibration ==
    \A t \in Threads :
        (call[t].op = "cal_voltage" /\ FailedSampling(t) # {})
        => /\ WritesInProgress(t) = {}
           /\ \A k \in FailedSampling(t) : k = Len(log[t])
           /\ call[t].st = "ret" => call[t].ret < 0

\* the registers the call of t has read, in order
RegistersRead(t) == [k \in 1..Len(log[t]) |-> log[t][k].op]

\* the call of t ran bq35100_get_sensor_data to its end
Fetched(t) ==
    \/ Returned(t, "get_sensor_data")
    \/ Returned(t, "sample_fetch") /\ call[t].ret # -ENXIO

(* C29: every fetch_all call issues one register read for each of the      *)
(* seven fields, in the order temperature, internal temperature, voltage,  *)
(* average current, state of health, accumulated capacity, design          *)
(* capacity, whatever the value of gauge_enabled.                          *)
C29_SevenReadsInOrder ==
    \A t \in Threads :
        Fetched(t)
        => RegistersRead(t)
             = <<"temperature", "internal_temperature", "voltage",
                 "avg_current", "state_of_health", "acc_capacity",
                 "design_capacity">>

(* C30: if any register read issued by fetch_all fails on the bus,         *)
(* fetch_all (and the sample_fetch that wraps it) returns an error to the  *)
(* caller instead of success.                                              *)
C30_FetchFailurePropagates ==
    \A t \in Threads :
        (Fetched(t) /\ ~NoBusError(t)) => call[t].ret < 0

\* positions in the log of the call of t where subcommand c was sent
SubcommandsSent(t, c) ==
    {k \in 1..Len(log[t]) :
        log[t][k].op = "mac_control" /\ log[t][k].val = LittleEndian16(c)}

(* C32: whenever sample_average has issued the ENTER_CAL subcommand, it     *)
(* issues the EXIT_CAL subcommand before it returns, on the success path    *)
(* and on every error path (bus failure while reading the counter or the    *)
(* sample).                                                                 *)
C32_CalibrationModeLeft ==
    \A t \in Threads :
        Returned(t, "get_raw_cal_data")
        => \A k \in SubcommandsSent(t, BQ35100_CTRL_ENTER_CAL) :
              \E j \in SubcommandsSent(t, BQ35100_CTRL_EXIT_CAL) : j > k

(* C35: in every reachable state the handle's cached security_mode is one   *)
(* of the four named states UNKNOWN, SEALED, UNSEALED, FULL_ACCESS, also    *)
(* after a set_security_mode attempt in which the read of the status        *)
(* register fails on the bus.                                               *)
C35_CachedModeIsNamed ==
    security_mode \in {BQ35100_SECURITY_UNKNOWN, BQ35100_SECURITY_SEALED,
                       BQ35100_SECURITY_UNSEALED,
                       BQ35100_SECURITY_FULL_ACCESS}

\* the response blocks the call of t received whose address matched, so
\* that the driver went on to the checksum of line 465
BlocksSummed(t) ==
    {k \in 1..Len(log[t]) :
        /\ log[t][k].op = "mac_block"
        /\ log[t][k].ok
        /\ AddressMatches(log[t][k].val, call[t].address)}

(* C36: read_block returns for every 36-byte response frame the device can  *)
(* send: for every value 0..255 of the length field (byte 35), 0 and 1      *)
(* included, the checksum computation over length_field - 2 bytes           *)
(* terminates and reads only bytes inside the 36-byte frame.                *)
C36_ChecksumTerminatesInsideFrame ==
    \A t \in Threads :
        call[t].op = "read_extended_data"
        => /\ ~At(t, "read_extended_data", "checksum")
           /\ \A k \in BlocksSummed(t) :
                 ChecksumLength(log[t][k].val[36]) <= 36

\* the position in the log of thread t of the first successful status
\* read that shows the sealed mode, 0 when there is none
SealConfirmedAt(t) ==
    LET S == {i \in 1..Len(log[t]) :
                 /\ log[t][i].op = "status"
                 /\ log[t][i].ok
                 /\ SecurityBits(FromLittleEndian16(log[t][i].val)) =
                        BQ35100_SECURITY_SEALED}
    IN  IF S = {} THEN 0 ELSE CHOOSE i \in S : \A j \in S : i <= j

\* GAUGE_START was put on the bus after position i of the log
StartedAfter(t, i) ==
    \E j \in (i + 1)..Len(log[t]) :
        /\ log[t][j].op = "mac_control"
        /\ log[t][j].val = LittleEndian16(BQ35100_CTRL_GAUGE_START)

\* C37: whenever bq35100_init returns 0 the cached mode is SEALED, a status
\* read confirmed the sealed mode, and GAUGE_START was issued after it
C37_InitZeroMeansSealedAndStarted ==
    \A t \in Threads :
        (Returned(t, "init") /\ call[t].ret = 0)
            => /\ security_mode = BQ35100_SECURITY_SEALED
               /\ SealConfirmedAt(t) > 0
               /\ StartedAfter(t, SealConfirmedAt(t))

\* the function thread t is executing, "none" between calls
Running(t) == IF stack[t] = <<>> THEN "none" ELSE Top(t).fn

\* thread t is at the status read of line 1766 of bq35100_init
AtInitStatusRead(t) == At(t, "init", "mode")

\* the calls that are to leave the cached fields alone
QuietCall(t) ==
    \/ call[t].op \in {"sample_fetch", "channel_get", "wait_for_status",
                       "enter_cal_mode"}
    \/ call[t].op = "new_battery" /\ call[t].target = 0

(* C31: security_mode changes only in a step of set_security_mode or in    *)
(* the status read of init, gauge_enabled only in gauge_start, gauge_stop  *)
(* and init, gauge_mode only in set_gauge_mode; sample_fetch, channel_get, *)
(* wait_for_status, new_battery(0) and enter_cal_mode change none of them  *)
C31_HandleFrame ==
    [][\A t \in Threads :
          /\ security_mode' # security_mode
                => Running(t) = "set_security_mode" \/ AtInitStatusRead(t)
          /\ gauge_enabled' # gauge_enabled
                => Running(t) \in {"gauge_start", "gauge_stop", "init"}
          /\ gauge_mode' # gauge_mode => Running(t) = "set_gauge_mode"
          /\ (call[t].st = "run" /\ QuietCall(t)) => handle' = handle]_vars

\* C31 witness: a call of bq35100_init has returned 0 and left each of the
\* three fields different from what it was before the call
C31_Witness ==
    \E t \in Threads :
        /\ Returned(t, "init")
        /\ call[t].ret = 0
        /\ security_mode # call[t].entry
        /\ gauge_mode # call[t].gm
        /\ gauge_enabled # call[t].ge

\* the float 2^k
PowerOfTwo(k) == Finite(1, 1, k)

\* two encodings are the same but for bit 7 of data[2], where they differ
SignBitApart(a, b) ==
    /\ a[1] = b[1] /\ a[2] = b[2] /\ a[4] = b[4]
    /\ a[3] % 128 = b[3] % 128
    /\ a[3] \div 128 # b[3] \div 128

(* C34: for value = 2^k the exponent byte is (k + 1) + 128, saturated at   *)
(* the clamp bounds, and the encoding of 1.0 is that of -1.0 but for bit 7 *)
(* of data[2]                                                              *)
C34_ExponentCountsUp ==
    \A t \in Threads :
        Returned(t, "float_to_DF") =>
            LET val == call[t].args.val
            IN  /\ \A k \in -149..127 :
                     val = PowerOfTwo(k) =>
                        call[t].buf[4] = ClampExponent(k + 1) + 128
                /\ val = PowerOfTwo(0) =>
                     \A b \in bq35100_float_to_DF(Finite(-1, 1, 0)) :
                         SignBitApart(call[t].buf, b)

\* the positions in the log of thread t of the subcommands in S that
\* reached the chip
SentAt(t, S) ==
    {i \in 1..Len(log[t]) :
        /\ log[t][i].op = "mac_control"
        /\ log[t][i].ok
        /\ SubcommandOf(log[t][i]) \in S}

\* the data frames of the block writes of thread t, in order
FramesWritten(t) == SelectSeq(log[t], LAMBDA e : e.op = "mac_frame" /\ e.ok)

\* the address a data frame carries, and the length of its payload
FrameAddress(e) == FromLittleEndian16(SubSeq(e.val, 1, 2))

FramePayloadLength(e) == Len(e.val) - 2

(* C33: cal_current opens the CC offset and then the board offset before   *)
(* it enters calibration mode to sample, and then writes the gain and      *)
(* after it the delta, each as a payload of 4 bytes                        *)
C33_GainAndDeltaWrittenWhole ==
    \A t \in Threads :
        (Returned(t, "cal_current") /\ call[t].ret = 0) =>
            /\ \E i \in SentAt(t, {BQ35100_FLASH_CC_OFFSET}),
                  j \in SentAt(t, {BQ35100_FLASH_BOARD_OFFSET}) :
                  /\ i < j
                  /\ \A k \in SentAt(t, {BQ35100_CTRL_ENTER_CAL}) : j < k
            /\ Len(FramesWritten(t)) = 2
            /\ FrameAddress(FramesWritten(t)[1]) = BQ35100_FLASH_CC_GAIN
            /\ FrameAddress(FramesWritten(t)[2]) = BQ35100_FLASH_CC_DELTA
            /\ \A k \in 1..2 : FramePayloadLength(FramesWritten(t)[k]) = 4

\* the interrupt path is at rest: the handler waits and nothing is pending
TriggerSettled ==
    /\ ltc4150_data.pc \in {"take", "idle"}
    /\ ltc4150_data.gpio_sem = 0
    /\ ~ltc4150_data.work.queued

Magnitude(x) == IF x < 0 THEN 0 - x ELSE x

\* C38: every INT interrupt leads to exactly one update of charge_count, by
\* one step up or down: no update comes without its interrupt, the counter
\* moved by at most one per update, and once the handler has caught up with
\* the pending interrupts there are as many updates as interrupts, in the
\* own-thread and in the work-queue configuration.
C38_EveryInterruptCounted ==
    ltc4150_data.trigger \in TriggerModes =>
        /\ ltc4150_data.updates <= ltc4150_data.interrupts
        /\ Magnitude(ltc4150_data.charge_count) <= ltc4150_data.updates
        /\ TriggerSettled =>
               ltc4150_data.updates = ltc4150_data.interrupts

=============================================================================
